---- MODULE Spec2Model ----
(***************************************************************************)
(* Model of office_assistant.graph_client.GraphClient: the retrying        *)
(* request executor (_request_with_retry), the error classifier            *)
(* (_is_auth_failure, _raise_graph_error, _parse_retry_after), the public  *)
(* operations get / post / patch / delete, and the token provider of       *)
(* office_assistant.auth (get_token, clear_cache) they call.               *)
(***************************************************************************)
EXTENDS Integers, Sequences, FiniteSets, TLC

\* ------------------------------------------------------------------------
\* Program constants (graph_client.py)
\* ------------------------------------------------------------------------
MAX_RETRIES == 3
\* Variant: 503 is not retried.
RETRY_STATUS_CODES_No503 == {429, 504}

RETRY_STATUS_CODES == {429, 503, 504}
BASE_BACKOFF_SECONDS == 1
AUTH_FAILURE_CODES == {"invalidauthenticationtoken", "unauthorized"}

\* ------------------------------------------------------------------------
\* Bounds of the model
\* ------------------------------------------------------------------------
\* The clock is read in ticks, TicksPerSecond of them to a second (HTTP-dates
\* are whole seconds, datetime.now(UTC) is not); the readings
\* datetime.now(UTC) can return are 0..MaxNow ticks.
TicksPerSecond == 2
MaxNow == 3

Clock == 0..MaxNow

\* The logical calls (coroutines running get/post/patch/delete) that can
\* exist on one GraphClient.
Calls == {"c1", "c2"}

Methods == {"GET", "POST", "PATCH", "DELETE"}

\* ------------------------------------------------------------------------
\* HTTP responses
\* ------------------------------------------------------------------------
\* Python's None, an absent JSON member, JSON null, a JSON number.
None == "None"
Absent == "<absent>"
JsonNull == "<null>"
JsonNumber == "<number>"

\* Values of the "code" member of an "error" object.
CodeStrings ==
    {"ErrorAccessDenied", "InvalidAuthenticationToken",
     "invalidauthenticationtoken", "Unauthorized", "UNAUTHORIZED",
     "ErrorItemNotFound", "ErrorInvalidRequest", "TooManyRequests"}

\* str.lower() on the error codes above.
Lower(s) ==
    CASE s = "ErrorAccessDenied" -> "erroraccessdenied"
      [] s = "InvalidAuthenticationToken" -> "invalidauthenticationtoken"
      [] s = "invalidauthenticationtoken" -> "invalidauthenticationtoken"
      [] s = "Unauthorized" -> "unauthorized"
      [] s = "UNAUTHORIZED" -> "unauthorized"
      [] s = "ErrorItemNotFound" -> "erroritemnotfound"
      [] s = "ErrorInvalidRequest" -> "errorinvalidrequest"
      [] s = "TooManyRequests" -> "toomanyrequests"
      [] s = "" -> ""
      [] OTHER -> s

\* A response body: kind "empty" is b"", "text" is non-empty bytes that are
\* not JSON, "array" is JSON that is not an object, "object" is a JSON
\* object whose "error" member is absent, not an object ("other") or an
\* object whose "code" member is Absent, JsonNull, JsonNumber or a string
\* and whose "message" member is Absent, JsonNull or a string; top is the
\* "message" member of the JSON object itself, value its "value" list (empty
\* when there is none) and nextLink its "@odata.nextLink" member.
Body(kind, error, code, message, top) ==
    [kind |-> kind, error |-> error, code |-> code, message |-> message,
     top |-> top, value |-> <<>>, nextLink |-> Absent]

EmptyBody == Body("empty", Absent, Absent, Absent, Absent)
TextBody == Body("text", Absent, Absent, Absent, Absent)
ArrayBody == Body("array", Absent, Absent, Absent, Absent)
PlainObject == Body("object", Absent, Absent, Absent, Absent)
ErrorNotObject == Body("object", "other", Absent, Absent, Absent)
ErrorBody(code) == Body("object", "object", code, "The request failed.", Absent)
ErrorBodyMessage(code, message, top) ==
    Body("object", "object", code, message, top)
TopMessageBody(error, top) == Body("object", error, Absent, Absent, top)
\* One page of a collection: {"value": [...], "@odata.nextLink": ...}.
PageBody(value, nextLink) ==
    [kind |-> "object", error |-> Absent, code |-> Absent, message |-> Absent,
     top |-> Absent, value |-> value, nextLink |-> nextLink]

\* A Retry-After header: absent, a decimal integer, an HTTP-date (the second
\* it names), or text that is neither.
NoHeader == [kind |-> "absent", n |-> 0]
IntHeader(n) == [kind |-> "int", n |-> n]
DateHeader(t) == [kind |-> "date", n |-> t]
\* An HTTP-date whose zone offset is too large for a C int, as in
\* "Wed, 21 Oct 2015 07:28:00 -99999999999999".
HugeZoneDateHeader == [kind |-> "hugezone", n |-> 0]
JunkHeader == [kind |-> "junk", n |-> 0]

Response(status, body, retryAfter) ==
    [status |-> status, body |-> body, retryAfter |-> retryAfter]

\* The value of resp before the first request (resp: Response | None = None).
NoResp == Response(0, EmptyBody, NoHeader)

SuccessResponses ==
    {Response(200, PlainObject, NoHeader), Response(200, ArrayBody, NoHeader),
     Response(200, TextBody, NoHeader), Response(200, EmptyBody, NoHeader),
     Response(202, PlainObject, NoHeader), Response(202, EmptyBody, NoHeader),
     Response(202, TextBody, NoHeader),
     Response(204, EmptyBody, NoHeader)}

UnauthorizedResponses ==
    {Response(401, EmptyBody, NoHeader),
     Response(401, ErrorBody("InvalidAuthenticationToken"), NoHeader)}

ForbiddenResponses ==
    {Response(403, b, NoHeader) :
        b \in {TextBody, ArrayBody, PlainObject, ErrorNotObject,
               ErrorBody(Absent), ErrorBody(JsonNull), ErrorBody(JsonNumber),
               ErrorBody("ErrorAccessDenied"),
               ErrorBody("InvalidAuthenticationToken"),
               ErrorBody("invalidauthenticationtoken"),
               ErrorBody("Unauthorized"), ErrorBody("UNAUTHORIZED")}}

OtherErrorResponses ==
    {Response(400, ErrorBody("ErrorInvalidRequest"), NoHeader),
     Response(400, ErrorBody(JsonNumber), NoHeader),
     Response(404, ErrorBody("ErrorItemNotFound"), NoHeader),
     Response(500, TextBody, NoHeader),
     Response(502, EmptyBody, NoHeader)}
    \cup {Response(400, b, NoHeader) :
            b \in {ErrorBodyMessage("ErrorInvalidRequest", "", Absent),
                   ErrorBodyMessage("ErrorInvalidRequest", Absent, "Top-level text."),
                   ErrorBodyMessage(Absent, JsonNull, Absent),
                   TopMessageBody(Absent, "Top-level text."),
                   TopMessageBody(Absent, ""),
                   TopMessageBody(Absent, JsonNumber),
                   TopMessageBody("other", "Top-level text.")}}

TransientResponses ==
    {Response(429, ErrorBody("TooManyRequests"), h) :
        h \in {NoHeader, IntHeader(0), IntHeader(2), IntHeader(-1),
               DateHeader(0), DateHeader(1), DateHeader(MaxNow + 2),
               JunkHeader, HugeZoneDateHeader}}
    \cup {Response(503, TextBody, NoHeader),
          Response(504, EmptyBody, NoHeader),
          Response(504, EmptyBody, IntHeader(2))}

\* The pages a paged collection is served in: one or two items each, with no
\* cursor, an empty cursor or a cursor to a further (or the same) page.
Cursors == {"/page/A", "/page/B"}

PageResponses ==
    {Response(200, PageBody(v, n), NoHeader) :
        v \in {<<"a">>, <<"b", "c">>}, n \in {Absent, ""} \cup Cursors}

\* What the server of a paged collection can answer to one HTTP request.
PagedServerResponses ==
    PageResponses
    \cup {Response(200, ArrayBody, NoHeader),
          Response(401, EmptyBody, NoHeader),
          Response(403, ErrorBody(JsonNull), NoHeader),
          Response(404, ErrorBody("ErrorItemNotFound"), NoHeader),
          Response(429, ErrorBody("TooManyRequests"), HugeZoneDateHeader),
          Response(503, TextBody, NoHeader)}

\* What the server answers to the requests of the tools.
ToolServerResponses ==
    {Response(200, PlainObject, NoHeader),
     Response(200, PageBody(<<"a">>, "/page/A"), NoHeader),
     Response(200, ArrayBody, NoHeader),
     Response(202, EmptyBody, NoHeader),
     Response(400, ErrorBody("ErrorInvalidRequest"), NoHeader),
     Response(400, ErrorBody(JsonNumber), NoHeader),
     Response(401, EmptyBody, NoHeader),
     Response(401, ErrorBody(JsonNumber), NoHeader),
     Response(403, ErrorBody("ErrorAccessDenied"), NoHeader),
     Response(403, ErrorBody(JsonNull), NoHeader),
     Response(403, ErrorBody(JsonNumber), NoHeader),
     Response(403, ErrorBody("InvalidAuthenticationToken"), NoHeader),
     Response(403, ErrorBody("UNAUTHORIZED"), NoHeader),
     Response(404, ErrorBody("ErrorItemNotFound"), NoHeader),
     Response(429, ErrorBody("TooManyRequests"), IntHeader(0)),
     Response(429, ErrorBody("ErrorItemNotFound"), IntHeader(2)),
     Response(429, ErrorBody("TooManyRequests"), HugeZoneDateHeader),
     Response(503, TextBody, NoHeader)}

\* What the server can answer to one HTTP request.
Responses ==
    SuccessResponses \cup UnauthorizedResponses \cup ForbiddenResponses
        \cup OtherErrorResponses \cup TransientResponses

\* ------------------------------------------------------------------------
\* Error classifier (pure functions of a response)
\* ------------------------------------------------------------------------
\* The int | None results: None is written NoSeconds.
NoSeconds == 0 - 1

Max(a, b) == IF a >= b THEN a ELSE b

\* Variant: only 5xx statuses count as errors.
IsError_ServerOnly(resp) == resp.status >= 500 /\ resp.status <= 599

\* httpx.Response.is_error: a 4xx or 5xx status.
IsError(resp) == resp.status >= 400 /\ resp.status <= 599

\* resp.json() raises ValueError on a body that is not JSON.
JsonFails(resp) == resp.body.kind \in {"empty", "text"}

\* int(x / y) for y > 0: the quotient truncated toward zero.
TruncDiv(x, y) == IF x >= 0 THEN x \div y ELSE 0 - ((0 - x) \div y)

\* parsedate_to_datetime raises OverflowError on a zone offset too large for
\* a C int; _parse_retry_after catches TypeError and ValueError only, so the
\* OverflowError leaves it.
ParseRetryAfterRaises(value) == value.kind = "hugezone"

\* Variant: only integers are parsed, an HTTP-date gives None.
ParseRetryAfter_IntegersOnly(value, now) ==
    IF value.kind = "int" THEN Max(value.n, 0) ELSE NoSeconds

\* GraphClient._parse_retry_after where it returns, with the clock reading
\* (in ticks) passed in: max(int(value), 0) for an integer, max(int((retry_at
\* - now).total_seconds()), 0) for an HTTP-date, None otherwise.
ParseRetryAfter(value, now) ==
    CASE value.kind = "absent" -> NoSeconds
      [] value.kind = "int" -> Max(value.n, 0)
      [] value.kind = "date" ->
           Max(TruncDiv(value.n * TicksPerSecond - now, TicksPerSecond), 0)
      [] OTHER -> NoSeconds

\* The reading of the clock _parse_retry_after leaves behind: it reads the
\* clock only for an HTTP-date.
ClockAfterParse(value, now, before) ==
    IF value.kind = "date" THEN now ELSE before

\* The value error.get("code", "") has in _is_auth_failure before .lower():
\* "" when there is no error object or no code member, else the member.
AuthCodeMember(resp) ==
    IF resp.body.kind = "object" /\ resp.body.error = "object"
        /\ resp.body.code # Absent
    THEN resp.body.code
    ELSE ""

\* Variant: every 403 counts as an auth failure.
IsAuthFailure_Any403(resp) ==
    IF resp.status \in {401, 403} THEN "true" ELSE "false"

\* GraphClient._is_auth_failure: "true", "false", or "raise" when .lower()
\* is applied to a code member that is not a string (AttributeError).
IsAuthFailure(resp) ==
    IF resp.status = 401 THEN "true"
    ELSE IF resp.status # 403 THEN "false"
    ELSE IF JsonFails(resp) THEN "false"
    ELSE IF AuthCodeMember(resp) \in {JsonNull, JsonNumber} THEN "raise"
    ELSE IF Lower(AuthCodeMember(resp)) \in AUTH_FAILURE_CODES THEN "true"
    ELSE "false"

IsTransient(resp) == resp.status \in RETRY_STATUS_CODES

\* The code _raise_graph_error extracts: err.get("code") of the error object.
ErrorCode(resp) ==
    IF resp.body.kind = "object" /\ resp.body.error = "object"
    THEN IF resp.body.code \in {Absent, JsonNull} THEN None ELSE resp.body.code
    ELSE None

\* A message: f"HTTP {status}" or a text taken from the body.
HttpStatusMessage(status) == [text |-> "HTTP", status |-> status]
BodyMessage(text) == [text |-> text, status |-> 0]

\* Variant: a top-level "message" wins over the "error" object.
ErrorMessage_TopFirst(resp) ==
    IF resp.body.kind # "object" THEN HttpStatusMessage(resp.status)
    ELSE IF resp.body.top \notin {Absent, JsonNull, JsonNumber}
         THEN BodyMessage(resp.body.top)
         ELSE IF resp.body.error = "object"
                 /\ resp.body.message \notin {Absent, JsonNull, ""}
              THEN BodyMessage(resp.body.message)
              ELSE HttpStatusMessage(resp.status)

\* The message _raise_graph_error extracts: err.get("message") or
\* f"HTTP {status}" from an error object, else the top-level "message" if it
\* is a string, else f"HTTP {status}".
ErrorMessage(resp) ==
    IF resp.body.kind # "object" THEN HttpStatusMessage(resp.status)
    ELSE IF resp.body.error = "object"
         THEN IF resp.body.message \in {Absent, JsonNull, ""}
              THEN HttpStatusMessage(resp.status)
              ELSE BodyMessage(resp.body.message)
         ELSE IF resp.body.top \notin {Absent, JsonNull, JsonNumber}
              THEN BodyMessage(resp.body.top)
              ELSE HttpStatusMessage(resp.status)

\* The GraphApiError _raise_graph_error builds from a response.
GraphApiError(resp, now) ==
    [status_code |-> resp.status,
     code |-> ErrorCode(resp),
     message |-> ErrorMessage(resp),
     retry_after_seconds |-> ParseRetryAfter(resp.retryAfter, now)]

NoError ==
    [status_code |-> 0, code |-> None, message |-> BodyMessage(""),
     retry_after_seconds |-> NoSeconds]

\* The delay slept after a transient response on loop index attempt.
BackoffDelay(resp, attempt, now) ==
    IF ParseRetryAfter(resp.retryAfter, now) # NoSeconds
    THEN ParseRetryAfter(resp.retryAfter, now)
    ELSE BASE_BACKOFF_SECONDS * (2 ^ attempt)

\* ------------------------------------------------------------------------
\* Token provider (auth.py)
\* ------------------------------------------------------------------------
\* Variant: the silent acquisition succeeds without a cache file.
GetTokenOutcomes_Silent(cache) ==
    {"token", "AuthenticationRequired", "RuntimeError"}

\* What one get_token() call can end in, given the cache file: a token is
\* returned only by the silent acquisition, which needs a cached account;
\* otherwise the device-code flow raises AuthenticationRequired, or
\* RuntimeError (missing configuration, flow could not be started).
GetTokenOutcomes(cache) ==
    IF cache = "present"
    THEN {"token", "AuthenticationRequired", "RuntimeError"}
    ELSE {"AuthenticationRequired", "RuntimeError"}

\* ------------------------------------------------------------------------
\* What get / post / patch / delete do with the executor's response
\* ------------------------------------------------------------------------
\* Variant: post looks at the content only, as patch does.
Finish_PostContentOnly(m, resp) ==
    IF IsError(resp) THEN "GraphApiError"
    ELSE IF m = "DELETE" \/ (m # "GET" /\ resp.body.kind = "empty")
         THEN "returned"
         ELSE IF JsonFails(resp) THEN "JSONDecodeError" ELSE "returned"

\* The outcome of the public operation once _request_with_retry returned
\* resp: _ensure_success raises GraphApiError on an error status; otherwise
\* the body is parsed (get), or {} is returned for 202 / empty content
\* (post), for empty content (patch), or nothing is read (delete).
Finish(m, resp) ==
    IF IsError(resp) THEN "GraphApiError"
    ELSE CASE m = "GET" ->
                IF JsonFails(resp) THEN "JSONDecodeError" ELSE "returned"
           [] m = "POST" ->
                IF resp.status = 202 \/ resp.body.kind = "empty" THEN "returned"
                ELSE IF JsonFails(resp) THEN "JSONDecodeError" ELSE "returned"
           [] m = "PATCH" ->
                IF resp.body.kind = "empty" THEN "returned"
                ELSE IF JsonFails(resp) THEN "JSONDecodeError" ELSE "returned"
           [] OTHER -> "returned"

\* What the operation returns when it returns: the parsed body, {} or None.
Result(m, resp) ==
    CASE m = "GET" -> "json"
      [] m = "POST" ->
           IF resp.status = 202 \/ resp.body.kind = "empty" THEN "{}" ELSE "json"
      [] m = "PATCH" -> IF resp.body.kind = "empty" THEN "{}" ELSE "json"
      [] OTHER -> None

\* ------------------------------------------------------------------------
\* State
\* ------------------------------------------------------------------------
VARIABLES
    active,       \* the logical calls the tool layer runs on the client
    cacheFile,    \* auth.CACHE_FILE: "absent" or "present" (holds an account)
    pc,           \* per call: where the coroutine is suspended
    method,       \* per call: "GET", "POST", "PATCH" or "DELETE"
    attempt,      \* per call: the loop index of _request_with_retry
    headers,      \* per call: 0 none, k the headers of its k-th acquisition
    resp,         \* per call: the local variable resp
    returned,     \* per call: the response _request_with_retry returned
    outcome,      \* per call: how get/post/patch/delete ended
    err,          \* per call: the GraphApiError raised to the caller
    result,       \* per call: what the operation returned
    httpCalls,    \* per call: self._http.request invocations
    acquired,     \* per call: how each _auth_headers call ended, in order
    clears,       \* per call: clear_cache invocations
    errorsBuilt,  \* per call: GraphApiError objects constructed
    sleeps,       \* per call: the asyncio.sleep delays, in order
    clockRead,    \* per call: the datetime.now(UTC) reading (in ticks) of the
                  \* _parse_retry_after run for the response in hand
    received      \* per call: the responses received, in order

\* get_all: its arguments and local variables, and what it did.
VARIABLES
    allPc,        \* per call: "idle", "fetch" (awaiting self.get) or "done"
    allCalls,     \* per call: get_all invocations made in a row so far
    max_pages,    \* per call: the max_pages argument
    path,         \* per call: the path argument of the self.get in hand
    data,         \* per call: the local variable data (the first page)
    all_items,    \* per call: the local variable all_items
    pages,        \* per call: the local variable pages (0 before page 1)
    next_link,    \* per call: the local variable next_link
    pagePaths,    \* per call: the paths of the self.get calls made, in order
    pageBodies,   \* per call: the objects the self.get calls returned
    allOutcome,   \* per call: how get_all ended
    allResult     \* per call: the dict get_all returned

pageVars ==
    <<allPc, allCalls, max_pages, path, data, all_items, pages, next_link, pagePaths,
      pageBodies, allOutcome, allResult>>

\* A tool invocation: its arguments, its position and how it ended.
VARIABLES
    tool,         \* per call: the tool invoked
    user_email,   \* per call: whether the user_email argument is given
    args,         \* per call: "valid", or the local check the arguments fail
    plan,         \* per call: the client operations the tool will await
    step,         \* per call: the index in plan of the operation in hand
    toolPc,       \* per call: "idle", "call" (awaiting the client) or "done"
    toolOutcome,  \* per call: "pending", "response" or the exception raised
    toolResponse  \* per call: the dict the tool returned

toolVars ==
    <<tool, user_email, args, plan, step, toolPc, toolOutcome, toolResponse>>

\* get_token running in a worker thread (asyncio.to_thread) for each call,
\* and what became of the cache file.
VARIABLES
    tokenPc,        \* per call: "idle", "env", "built", "save" or "done"
    cache,          \* per call: get_token's local cache object: "none",
                    \* "empty" or "account" (deserialized from the file)
    changed,        \* per call: cache.has_state_changed
    tokenOutcome,   \* per call: how get_token ended
    written,        \* per call: its _save_cache wrote the cache file
    stale,          \* per call: clear_cache returned after cache was loaded
    sawInvalidated, \* per call: _build_cache ran while invalidated was true
    invalidated     \* clear_cache returned and nothing wrote the file since

authVars ==
    <<tokenPc, cache, changed, tokenOutcome, written, stale, sawInvalidated,
      invalidated>>

callVars ==
    <<pc, method, attempt, headers, resp, returned, outcome, err, result,
      httpCalls, acquired, clears, errorsBuilt, sleeps, clockRead, received>>

vars == <<active, cacheFile, callVars, pageVars, toolVars, authVars>>

Fresh(v) == [c \in Calls |-> v]

InitCalls ==
    /\ pc = Fresh("idle")
    /\ method = Fresh("GET")
    /\ attempt = Fresh(0)
    /\ headers = Fresh(0)
    /\ resp = Fresh(NoResp)
    /\ returned = Fresh(NoResp)
    /\ outcome = Fresh("pending")
    /\ err = Fresh(NoError)
    /\ result = Fresh(None)
    /\ httpCalls = Fresh(0)
    /\ acquired = Fresh(<<>>)
    /\ clears = Fresh(0)
    /\ errorsBuilt = Fresh(0)
    /\ sleeps = Fresh(<<>>)
    /\ clockRead = Fresh(NoSeconds)
    /\ received = Fresh(<<>>)

\* The path get_all is called with, and data before the first page.
FirstPath == "/me/events"
NoData == EmptyBody

InitPages ==
    /\ allPc = Fresh("idle")
    /\ allCalls = Fresh(0)
    /\ max_pages = Fresh(0)
    /\ path = Fresh(None)
    /\ data = Fresh(NoData)
    /\ all_items = Fresh(<<>>)
    /\ pages = Fresh(0)
    /\ next_link = Fresh(Absent)
    /\ pagePaths = Fresh(<<>>)
    /\ pageBodies = Fresh(<<>>)
    /\ allOutcome = Fresh("pending")
    /\ allResult = Fresh(NoData)

NoResponse ==
    [kind |-> "none", errorType |-> None, statusCode |-> 0,
     error |-> BodyMessage(""), errorCode |-> None,
     retryAfterSeconds |-> NoSeconds]

InitTools ==
    /\ tool = Fresh(None)
    /\ user_email = Fresh(FALSE)
    /\ args = Fresh("valid")
    /\ plan = Fresh(<<>>)
    /\ step = Fresh(0)
    /\ toolPc = Fresh("idle")
    /\ toolOutcome = Fresh("pending")
    /\ toolResponse = Fresh(NoResponse)

InitAuth ==
    /\ tokenPc = Fresh("idle")
    /\ cache = Fresh("none")
    /\ changed = Fresh(FALSE)
    /\ tokenOutcome = Fresh("pending")
    /\ written = Fresh(FALSE)
    /\ stale = Fresh(FALSE)
    /\ sawInvalidated = Fresh(FALSE)
    /\ invalidated = FALSE

\* One tool invocation at a time uses the client.
Init ==
    /\ active = {"c1"}
    /\ cacheFile \in {"absent", "present"}
    /\ InitCalls
    /\ InitPages
    /\ InitTools
    /\ InitAuth

\* Two tool invocations use the client at the same time.
InitConcurrent ==
    /\ active = Calls
    /\ cacheFile \in {"absent", "present"}
    /\ InitCalls
    /\ InitPages
    /\ InitTools
    /\ InitAuth

\* ------------------------------------------------------------------------
\* get / post / patch / delete and _request_with_retry
\* ------------------------------------------------------------------------
\* get/post/patch/delete is called: the coroutine starts and is about to
\* await the first _auth_headers().
StartCall(c, m) ==
    /\ c \in active
    /\ pc[c] \in {"idle", "done"}
    /\ pc' = [pc EXCEPT ![c] = "acquire"]
    /\ method' = [method EXCEPT ![c] = m]
    /\ attempt' = [attempt EXCEPT ![c] = 0]
    /\ headers' = [headers EXCEPT ![c] = 0]
    /\ resp' = [resp EXCEPT ![c] = NoResp]
    /\ returned' = [returned EXCEPT ![c] = NoResp]
    /\ outcome' = [outcome EXCEPT ![c] = "pending"]
    /\ err' = [err EXCEPT ![c] = NoError]
    /\ result' = [result EXCEPT ![c] = None]
    /\ httpCalls' = [httpCalls EXCEPT ![c] = 0]
    /\ acquired' = [acquired EXCEPT ![c] = <<>>]
    /\ clears' = [clears EXCEPT ![c] = 0]
    /\ errorsBuilt' = [errorsBuilt EXCEPT ![c] = 0]
    /\ sleeps' = [sleeps EXCEPT ![c] = <<>>]
    /\ clockRead' = [clockRead EXCEPT ![c] = NoSeconds]
    /\ received' = [received EXCEPT ![c] = <<>>]
    /\ UNCHANGED <<active, cacheFile>>

\* The call ends with exception exc, raised by something other than
\* _ensure_success; _request_with_retry returned nothing.
Raise(c, exc) ==
    /\ pc' = [pc EXCEPT ![c] = "done"]
    /\ outcome' = [outcome EXCEPT ![c] = exc]
    /\ UNCHANGED <<returned, err, result, errorsBuilt, clockRead>>

\* _request_with_retry returns r; the operation runs _ensure_success(r) and
\* then reads the body, which ends the call.
Return(c, r, now) ==
    /\ pc' = [pc EXCEPT ![c] = "done"]
    /\ returned' = [returned EXCEPT ![c] = r]
    /\ IF IsError(r) /\ ParseRetryAfterRaises(r.retryAfter)
       THEN /\ outcome' = [outcome EXCEPT ![c] = "OverflowError"]
            /\ UNCHANGED <<err, errorsBuilt, clockRead, result>>
       ELSE /\ outcome' = [outcome EXCEPT ![c] = Finish(method[c], r)]
            /\ err' = [err EXCEPT ![c] =
                         IF IsError(r) THEN GraphApiError(r, now) ELSE NoError]
            /\ errorsBuilt' = [errorsBuilt EXCEPT ![c] =
                                 IF IsError(r) THEN @ + 1 ELSE @]
            /\ clockRead' = [clockRead EXCEPT ![c] =
                               IF IsError(r)
                               THEN ClockAfterParse(r.retryAfter, now, @)
                               ELSE @]
            /\ result' = [result EXCEPT ![c] =
                            IF Finish(method[c], r) = "returned"
                            THEN Result(method[c], r) ELSE None]

\* headers = await self._auth_headers() at the top: get_token returns.
AcquireHeaders(c) ==
    /\ pc[c] = "acquire"
    /\ "token" \in GetTokenOutcomes(cacheFile)
    /\ acquired' = [acquired EXCEPT ![c] = Append(@, "token")]
    /\ headers' = [headers EXCEPT ![c] = 1]
    /\ pc' = [pc EXCEPT ![c] = "send"]
    /\ UNCHANGED <<active, cacheFile, method, attempt, resp, returned, outcome,
                   err, result, httpCalls, clears, errorsBuilt, sleeps, received>>
    /\ UNCHANGED clockRead

\* Variant: the signal of the first acquisition is turned into a
\* GraphApiError.
AcquireRaises_Wrapped(c, exc) ==
    /\ pc[c] = "acquire"
    /\ exc \in GetTokenOutcomes(cacheFile) \ {"token"}
    /\ acquired' = [acquired EXCEPT ![c] = Append(@, exc)]
    /\ pc' = [pc EXCEPT ![c] = "done"]
    /\ outcome' = [outcome EXCEPT ![c] = "GraphApiError"]
    /\ errorsBuilt' = [errorsBuilt EXCEPT ![c] = @ + 1]
    /\ UNCHANGED <<active, cacheFile, method, attempt, headers, resp, returned,
                   err, result, httpCalls, clears, sleeps, received>>
    /\ UNCHANGED clockRead

\* The first _auth_headers() raises (AuthenticationRequired or RuntimeError):
\* nothing catches it, it leaves the operation.
AcquireRaises(c, exc) ==
    /\ pc[c] = "acquire"
    /\ exc \in GetTokenOutcomes(cacheFile) \ {"token"}
    /\ acquired' = [acquired EXCEPT ![c] = Append(@, exc)]
    /\ Raise(c, exc)
    /\ UNCHANGED <<active, cacheFile, method, attempt, headers, resp,
                   httpCalls, clears, sleeps, received>>

\* Variant: the sleep of a call blocks the event loop, so that no request
\* goes out while a call sleeps.
SendRequest_BlockingSleep(c) ==
    /\ pc[c] = "send"
    /\ attempt[c] < MAX_RETRIES
    /\ \A d \in Calls : pc[d] # "sleep"
    /\ httpCalls' = [httpCalls EXCEPT ![c] = @ + 1]
    /\ pc' = [pc EXCEPT ![c] = "wait"]
    /\ UNCHANGED <<active, cacheFile, method, attempt, headers, resp, returned,
                   outcome, err, result, acquired, clears, errorsBuilt, sleeps,
                   received>>
    /\ UNCHANGED clockRead

\* resp = await self._http.request(...): the request goes out.
SendRequest(c) ==
    /\ pc[c] = "send"
    /\ attempt[c] < MAX_RETRIES
    /\ httpCalls' = [httpCalls EXCEPT ![c] = @ + 1]
    /\ pc' = [pc EXCEPT ![c] = "wait"]
    /\ UNCHANGED <<active, cacheFile, method, attempt, headers, resp, returned,
                   outcome, err, result, acquired, clears, errorsBuilt, sleeps,
                   received>>
    /\ UNCHANGED clockRead

\* Variant: a transport failure is turned into a GraphApiError.
TransportFailure_Wrapped(c) ==
    /\ pc[c] = "wait"
    /\ pc' = [pc EXCEPT ![c] = "done"]
    /\ outcome' = [outcome EXCEPT ![c] = "GraphApiError"]
    /\ errorsBuilt' = [errorsBuilt EXCEPT ![c] = @ + 1]
    /\ UNCHANGED <<active, cacheFile, method, attempt, headers, resp, returned,
                   err, result, httpCalls, acquired, clears, sleeps, received>>
    /\ UNCHANGED clockRead

\* The request fails at transport level (connection error, 30 s timeout):
\* httpx raises, nothing in the client catches it.
TransportFailure(c) ==
    /\ pc[c] = "wait"
    /\ Raise(c, "TransportError")
    /\ UNCHANGED <<active, cacheFile, method, attempt, headers, resp,
                   httpCalls, acquired, clears, sleeps, received>>

\* Variant: the auth test is made on every attempt.
AuthRetryTest_AnyAttempt(c, r) == IsAuthFailure(r)

\* Variant: the auth test is made on attempts 0 and 1.
AuthRetryTest_UpToOne(c, r) == IF attempt[c] <= 1 THEN IsAuthFailure(r) ELSE "false"

\* The test "attempt == 0 and self._is_auth_failure(resp)"; "raise" when the
\* classifier raises.
AuthRetryTest(c, r) == IF attempt[c] = 0 THEN IsAuthFailure(r) ELSE "false"

\* Response r arrives.
Receive(c, r) ==
    /\ pc[c] = "wait"
    /\ r \in Responses \cup PagedServerResponses \cup ToolServerResponses
    /\ resp' = [resp EXCEPT ![c] = r]
    /\ received' = [received EXCEPT ![c] = Append(@, r)]

\* Response r is an auth failure on attempt 0: clear_cache(), then await the
\* second _auth_headers().
AuthFailureOnFirstAttempt(c, r) ==
    /\ Receive(c, r)
    /\ AuthRetryTest(c, r) = "true"
    /\ clears' = [clears EXCEPT ![c] = @ + 1]
    /\ cacheFile' = "absent"
    /\ pc' = [pc EXCEPT ![c] = "reacquire"]
    /\ UNCHANGED <<active, method, attempt, headers, returned, outcome, err,
                   result, httpCalls, acquired, errorsBuilt, sleeps>>
    /\ UNCHANGED clockRead

\* _is_auth_failure raises on attempt 0 (a 403 whose code is not a string).
ClassifierRaises(c, r) ==
    /\ Receive(c, r)
    /\ AuthRetryTest(c, r) = "raise"
    /\ Raise(c, "AttributeError")
    /\ UNCHANGED <<active, cacheFile, method, attempt, headers, httpCalls,
                   acquired, clears, sleeps>>

\* Variant: a terminal response is replaced by the first response received.
ReturnTerminal_First(c, r, now) ==
    /\ Receive(c, r)
    /\ AuthRetryTest(c, r) = "false"
    /\ ~IsTransient(r)
    /\ Return(c, received'[c][1], now)
    /\ UNCHANGED <<active, cacheFile, method, attempt, headers, httpCalls,
                   acquired, clears, sleeps>>

\* Response r is not retried: "if resp.status_code not in
\* _RETRY_STATUS_CODES: return resp".
ReturnTerminal(c, r, now) ==
    /\ Receive(c, r)
    /\ AuthRetryTest(c, r) = "false"
    /\ ~IsTransient(r)
    /\ Return(c, r, now)
    /\ UNCHANGED <<active, cacheFile, method, attempt, headers, httpCalls,
                   acquired, clears, sleeps>>

\* Response r is transient and _parse_retry_after raises on its Retry-After
\* header: the OverflowError leaves _request_with_retry.
RetryAfterRaises(c, r) ==
    /\ Receive(c, r)
    /\ AuthRetryTest(c, r) = "false"
    /\ IsTransient(r)
    /\ ParseRetryAfterRaises(r.retryAfter)
    /\ Raise(c, "OverflowError")
    /\ UNCHANGED <<active, cacheFile, method, attempt, headers, httpCalls,
                   acquired, clears, sleeps>>

\* Response r is transient: compute the delay and await asyncio.sleep(delay).
BackoffOnTransient(c, r, now) ==
    /\ Receive(c, r)
    /\ AuthRetryTest(c, r) = "false"
    /\ IsTransient(r)
    /\ ~ParseRetryAfterRaises(r.retryAfter)
    /\ sleeps' = [sleeps EXCEPT ![c] = Append(@, BackoffDelay(r, attempt[c], now))]
    /\ clockRead' = [clockRead EXCEPT ![c] = ClockAfterParse(r.retryAfter, now, @)]
    /\ pc' = [pc EXCEPT ![c] = "sleep"]
    /\ UNCHANGED <<active, cacheFile, method, attempt, headers, returned,
                   outcome, err, result, httpCalls, acquired, clears,
                   errorsBuilt>>

\* Variant: the auth retry does not use up a loop index.
ReacquireHeaders_KeepsSlot(c) ==
    /\ pc[c] = "reacquire"
    /\ "token" \in GetTokenOutcomes(cacheFile)
    /\ acquired' = [acquired EXCEPT ![c] = Append(@, "token")]
    /\ headers' = [headers EXCEPT ![c] = 2]
    /\ pc' = [pc EXCEPT ![c] = "send"]
    /\ UNCHANGED <<active, cacheFile, method, attempt, resp, returned, outcome,
                   err, result, httpCalls, clears, errorsBuilt, sleeps, received>>
    /\ UNCHANGED clockRead

\* Variant: the token of the second _auth_headers() is dropped and the
\* retry goes out with the headers acquired first.
ReacquireHeaders_KeepsHeaders(c) ==
    /\ pc[c] = "reacquire"
    /\ "token" \in GetTokenOutcomes(cacheFile)
    /\ acquired' = [acquired EXCEPT ![c] = Append(@, "token")]
    /\ attempt' = [attempt EXCEPT ![c] = @ + 1]
    /\ pc' = [pc EXCEPT ![c] = "send"]
    /\ UNCHANGED <<active, cacheFile, method, headers, resp, returned, outcome,
                   err, result, httpCalls, clears, errorsBuilt, sleeps,
                   received>>
    /\ UNCHANGED clockRead

\* The second _auth_headers() returns a token: "continue" to attempt 1.
ReacquireHeaders(c) ==
    /\ pc[c] = "reacquire"
    /\ "token" \in GetTokenOutcomes(cacheFile)
    /\ acquired' = [acquired EXCEPT ![c] = Append(@, "token")]
    /\ headers' = [headers EXCEPT ![c] = 2]
    /\ attempt' = [attempt EXCEPT ![c] = @ + 1]
    /\ pc' = [pc EXCEPT ![c] = "send"]
    /\ UNCHANGED <<active, cacheFile, method, resp, returned, outcome, err,
                   result, httpCalls, clears, errorsBuilt, sleeps, received>>
    /\ UNCHANGED clockRead

\* Variant: on AuthenticationRequired the cache is cleared and the
\* acquisition tried again.
ReacquireNeedsSignIn_TriesAgain(c, now) ==
    /\ pc[c] = "reacquire"
    /\ "AuthenticationRequired" \in GetTokenOutcomes(cacheFile)
    /\ acquired' = [acquired EXCEPT ![c] = Append(@, "AuthenticationRequired")]
    /\ clears' = [clears EXCEPT ![c] = @ + 1]
    /\ cacheFile' = "absent"
    /\ UNCHANGED <<active, pc, method, attempt, headers, resp, returned,
                   outcome, err, result, httpCalls, errorsBuilt, sleeps,
                   clockRead, received>>

\* Variant: AuthenticationRequired from the second acquisition is not caught.
ReacquireNeedsSignIn_Uncaught(c, now) ==
    /\ pc[c] = "reacquire"
    /\ "AuthenticationRequired" \in GetTokenOutcomes(cacheFile)
    /\ acquired' = [acquired EXCEPT ![c] = Append(@, "AuthenticationRequired")]
    /\ Raise(c, "AuthenticationRequired")
    /\ UNCHANGED <<active, cacheFile, method, attempt, headers, resp,
                   httpCalls, clears, sleeps, received>>

\* The second _auth_headers() raises AuthenticationRequired: it is caught
\* and the original response is returned.
ReacquireNeedsSignIn(c, now) ==
    /\ pc[c] = "reacquire"
    /\ "AuthenticationRequired" \in GetTokenOutcomes(cacheFile)
    /\ acquired' = [acquired EXCEPT ![c] = Append(@, "AuthenticationRequired")]
    /\ Return(c, resp[c], now)
    /\ UNCHANGED <<active, cacheFile, method, attempt, headers, resp,
                   httpCalls, clears, sleeps, received>>

\* The second _auth_headers() raises RuntimeError: not caught.
ReacquireRaises(c) ==
    /\ pc[c] = "reacquire"
    /\ "RuntimeError" \in GetTokenOutcomes(cacheFile)
    /\ acquired' = [acquired EXCEPT ![c] = Append(@, "RuntimeError")]
    /\ Raise(c, "RuntimeError")
    /\ UNCHANGED <<active, cacheFile, method, attempt, headers, resp,
                   httpCalls, clears, sleeps, received>>

\* asyncio.sleep returns and the loop has another index to run.
WakeAndRetry(c) ==
    /\ pc[c] = "sleep"
    /\ attempt[c] + 1 < MAX_RETRIES
    /\ attempt' = [attempt EXCEPT ![c] = @ + 1]
    /\ pc' = [pc EXCEPT ![c] = "send"]
    /\ UNCHANGED <<active, cacheFile, method, headers, resp, returned, outcome,
                   err, result, httpCalls, acquired, clears, errorsBuilt,
                   sleeps, received>>
    /\ clockRead' = [clockRead EXCEPT ![c] = NoSeconds]

\* asyncio.sleep returns and range(_MAX_RETRIES) is used up: the last
\* response is returned.
RetriesExhausted(c, now) ==
    /\ pc[c] = "sleep"
    /\ attempt[c] + 1 >= MAX_RETRIES
    /\ attempt' = [attempt EXCEPT ![c] = @ + 1]
    /\ Return(c, resp[c], now)
    /\ UNCHANGED <<active, cacheFile, method, headers, resp, httpCalls,
                   acquired, clears, sleeps, received>>

\* ------------------------------------------------------------------------
\* Environment
\* ------------------------------------------------------------------------
\* The user signs in (setup._authenticate / auth.complete_device_flow):
\* _save_cache writes the cache file.
CompleteDeviceFlow ==
    /\ cacheFile = "absent"
    /\ cacheFile' = "present"
    /\ UNCHANGED <<active, callVars>>

\* ------------------------------------------------------------------------
\* get_all
\* ------------------------------------------------------------------------
\* The values of the max_pages argument: up to MaxPages, and 0 and -1.
MaxPages == 2

MaxPagesArgs == (0 - 1)..MaxPages

\* get_all is invoked at most MaxGetAlls times, one invocation after another.
MaxGetAlls == 2

\* "while next_link": None and "" are falsy.
Truthy(link) == link \notin {Absent, ""}

\* Variant: the cap is tested with <=.
WithinCap_Inclusive(p, mp) == p <= mp

\* "pages < max_pages".
WithinCap(p, mp) == p < mp

\* Variant: the cursor key is left in the dict.
Merged_KeepsCursor(d, items) == [d EXCEPT !.value = items]

\* data["value"] = all_items; data.pop("@odata.nextLink", None).
Merged(d, items) == [d EXCEPT !.value = items, !.nextLink = Absent]

\* get_all is called: it awaits self.get(path, params=params).
StartGetAll(c, mp) ==
    /\ c \in active
    /\ allPc[c] \in {"idle", "done"}
    /\ allCalls[c] < MaxGetAlls
    /\ StartCall(c, "GET")
    /\ allPc' = [allPc EXCEPT ![c] = "fetch"]
    /\ allCalls' = [allCalls EXCEPT ![c] = @ + 1]
    /\ max_pages' = [max_pages EXCEPT ![c] = mp]
    /\ path' = [path EXCEPT ![c] = FirstPath]
    /\ data' = [data EXCEPT ![c] = NoData]
    /\ all_items' = [all_items EXCEPT ![c] = <<>>]
    /\ pages' = [pages EXCEPT ![c] = 0]
    /\ next_link' = [next_link EXCEPT ![c] = Absent]
    /\ pagePaths' = [pagePaths EXCEPT ![c] = <<FirstPath>>]
    /\ pageBodies' = [pageBodies EXCEPT ![c] = <<>>]
    /\ allOutcome' = [allOutcome EXCEPT ![c] = "pending"]
    /\ allResult' = [allResult EXCEPT ![c] = NoData]

\* Variant: an error of a later page is swallowed and the pages merged so
\* far are returned.
GetRaises_ReturnsPartial(c) ==
    /\ allPc[c] = "fetch"
    /\ pc[c] = "done"
    /\ outcome[c] # "returned"
    /\ allPc' = [allPc EXCEPT ![c] = "done"]
    /\ allOutcome' = [allOutcome EXCEPT ![c] =
                        IF pages[c] >= 1 THEN "returned" ELSE outcome[c]]
    /\ allResult' = [allResult EXCEPT ![c] =
                        IF pages[c] >= 1 THEN Merged(data[c], all_items[c]) ELSE @]
    /\ UNCHANGED <<active, cacheFile, callVars, allCalls, max_pages, path,
                   data, all_items, pages, next_link, pagePaths, pageBodies>>

\* The awaited self.get raises: the exception leaves get_all.
GetRaises(c) ==
    /\ allPc[c] = "fetch"
    /\ pc[c] = "done"
    /\ outcome[c] # "returned"
    /\ allPc' = [allPc EXCEPT ![c] = "done"]
    /\ allOutcome' = [allOutcome EXCEPT ![c] = outcome[c]]
    /\ UNCHANGED <<active, cacheFile, callVars, allCalls, max_pages, path,
                   data, all_items, pages, next_link, pagePaths, pageBodies,
                   allResult>>

\* The awaited self.get returns JSON that is not an object: data.get (or
\* page_data.get) raises AttributeError.
PageNotObject(c) ==
    /\ allPc[c] = "fetch"
    /\ pc[c] = "done"
    /\ outcome[c] = "returned"
    /\ returned[c].body.kind # "object"
    /\ allPc' = [allPc EXCEPT ![c] = "done"]
    /\ allOutcome' = [allOutcome EXCEPT ![c] = "AttributeError"]
    /\ UNCHANGED <<active, cacheFile, callVars, allCalls, max_pages, path,
                   data, all_items, pages, next_link, pagePaths, pageBodies,
                   allResult>>

\* Variant: the cap is consulted before the first page is kept.
PageMerged_CapFirst(c, body) ==
    /\ allPc[c] = "fetch"
    /\ pc[c] = "done"
    /\ outcome[c] = "returned"
    /\ body = returned[c].body
    /\ body.kind = "object"
    /\ data' = [data EXCEPT ![c] = IF pages[c] = 0 THEN body ELSE @]
    /\ all_items' = [all_items EXCEPT ![c] =
                       IF pages[c] >= max_pages[c] THEN @
                       ELSE IF pages[c] = 0 THEN body.value ELSE @ \o body.value]
    /\ pages' = [pages EXCEPT ![c] = @ + 1]
    /\ next_link' = [next_link EXCEPT ![c] = body.nextLink]
    /\ pageBodies' = [pageBodies EXCEPT ![c] = Append(@, body)]

\* The awaited self.get returns the object body: it is merged into the
\* local variables (the first page by lines 241-244, a later one by lines
\* 249-251).
PageMerged(c, body) ==
    /\ allPc[c] = "fetch"
    /\ pc[c] = "done"
    /\ outcome[c] = "returned"
    /\ body = returned[c].body
    /\ body.kind = "object"
    /\ data' = [data EXCEPT ![c] = IF pages[c] = 0 THEN body ELSE @]
    /\ all_items' = [all_items EXCEPT ![c] =
                       IF pages[c] = 0 THEN body.value ELSE @ \o body.value]
    /\ pages' = [pages EXCEPT ![c] = @ + 1]
    /\ next_link' = [next_link EXCEPT ![c] = body.nextLink]
    /\ pageBodies' = [pageBodies EXCEPT ![c] = Append(@, body)]

\* Variant: the loop follows the cursor without testing the cap.
NextPage_Uncapped(c) ==
    /\ PageMerged(c, returned[c].body)
    /\ Truthy(next_link'[c])
    /\ path' = [path EXCEPT ![c] = next_link'[c]]
    /\ pagePaths' = [pagePaths EXCEPT ![c] = Append(@, next_link'[c])]
    /\ StartCall(c, "GET")
    /\ UNCHANGED <<allPc, allCalls, max_pages, allOutcome, allResult>>

\* Variant: the loop requests the original path again.
NextPage_FirstPath(c) ==
    /\ PageMerged(c, returned[c].body)
    /\ Truthy(next_link'[c])
    /\ WithinCap(pages'[c], max_pages[c])
    /\ path' = [path EXCEPT ![c] = FirstPath]
    /\ pagePaths' = [pagePaths EXCEPT ![c] = Append(@, FirstPath)]
    /\ StartCall(c, "GET")
    /\ UNCHANGED <<allPc, allCalls, max_pages, allOutcome, allResult>>

\* A page was merged, it has a cursor and the cap is not reached: the loop
\* body awaits self.get(next_link).
NextPage(c) ==
    /\ PageMerged(c, returned[c].body)
    /\ Truthy(next_link'[c])
    /\ WithinCap(pages'[c], max_pages[c])
    /\ path' = [path EXCEPT ![c] = next_link'[c]]
    /\ pagePaths' = [pagePaths EXCEPT ![c] = Append(@, next_link'[c])]
    /\ StartCall(c, "GET")
    /\ UNCHANGED <<allPc, allCalls, max_pages, allOutcome, allResult>>

\* A page was merged and the loop ends (no cursor, or the cap is reached):
\* get_all returns data with the merged items and without the cursor key.
ReturnAll(c) ==
    /\ PageMerged(c, returned[c].body)
    /\ ~(Truthy(next_link'[c]) /\ WithinCap(pages'[c], max_pages[c]))
    /\ allPc' = [allPc EXCEPT ![c] = "done"]
    /\ allOutcome' = [allOutcome EXCEPT ![c] = "returned"]
    /\ allResult' = [allResult EXCEPT ![c] = Merged(data'[c], all_items'[c])]
    /\ UNCHANGED <<active, cacheFile, callVars, allCalls, max_pages, path,
                   pagePaths>>

\* ------------------------------------------------------------------------
\* Tools (tools/calendars.py, events.py, availability.py, rooms.py)
\* ------------------------------------------------------------------------
Tools ==
    {"get_my_profile", "list_calendars", "list_events", "create_event",
     "update_event", "cancel_event", "respond_to_event", "get_free_busy",
     "find_meeting_times", "list_rooms"}

\* The client operations a tool awaits, in order, once its arguments have
\* passed validation: update_event reads the event first when it needs the
\* existing start/end, cancel_event posts /cancel with a comment and
\* deletes without one.
Plans(t) ==
    CASE t = "get_my_profile" -> {<<"GET", "GET">>}
      [] t = "list_calendars" -> {<<"GET">>}
      [] t \in {"list_events", "list_rooms"} -> {<<"GET_ALL">>}
      [] t = "update_event" -> {<<"PATCH">>, <<"GET", "PATCH">>}
      [] t = "cancel_event" -> {<<"POST">>, <<"DELETE">>}
      [] OTHER -> {<<"POST">>}

\* The tools that take a user_email argument.
DelegateTools ==
    {"list_events", "create_event", "update_event", "cancel_event",
     "respond_to_event"}

\* get_all's default for max_pages, which the tools rely on.
DefaultMaxPages == 10

\* The tools whose try statement has an "except AuthenticationRequired".
CatchesAuthenticationRequired(t) ==
    t \notin {"get_my_profile", "list_calendars"}

\* (exc.code or "").lower(): a code that is a number has no lower().
LowerRaises(e) == e.code = JsonNumber
LoweredCode(e) == IF e.code = None THEN "" ELSE Lower(e.code)

\* events._is_access_denied.
IsAccessDenied(e) ==
    e.status_code = 403 \/ LoweredCode(e) = "erroraccessdenied"
IsAccessDeniedRaises(e) == e.status_code # 403 /\ LowerRaises(e)

\* The errorType graph_error_response gives an error.
ErrorType(e) ==
    IF e.status_code = 401
       \/ LoweredCode(e) \in {"invalidauthenticationtoken", "unauthorized"}
    THEN "auth_error"
    ELSE IF e.status_code = 403
            \/ LoweredCode(e) \in {"erroraccessdenied", "accessdenied"}
    THEN "permission_denied"
    ELSE IF e.status_code = 404
            \/ LoweredCode(e) \in {"erroritemnotfound", "resourcenotfound"}
    THEN "not_found"
    ELSE IF e.status_code = 429 THEN "throttled"
    ELSE IF e.status_code = 400
            \/ LoweredCode(e) \in {"errorinvalidrequest"}
    THEN "validation_error"
    ELSE "graph_error"

\* The message graph_error_response gives an error of each type when it is
\* given no fallback_message.
DefaultMessage(e) ==
    CASE ErrorType(e) = "auth_error" ->
           BodyMessage("Authentication failed. Run /calendar-setup to sign in again.")
      [] ErrorType(e) = "permission_denied" ->
           BodyMessage("You don't have permission to perform this action.")
      [] ErrorType(e) = "not_found" ->
           BodyMessage("The requested resource was not found.")
      [] ErrorType(e) = "throttled" ->
           BodyMessage("Microsoft Graph is rate-limiting requests. Please retry.")
      [] OTHER -> e.message

\* _helpers.graph_error_response where it returns; fallback is None or the
\* fallback_message.
GraphErrorResponse(e, fallback) ==
    [kind |-> "error",
     errorType |-> ErrorType(e),
     statusCode |-> e.status_code,
     error |-> IF fallback = None THEN DefaultMessage(e)
               ELSE BodyMessage(fallback),
     errorCode |-> IF e.code \in {None, ""} THEN None ELSE e.code,
     retryAfterSeconds |-> e.retry_after_seconds]

\* The fallback_message the tool t passes for error e (None when it passes
\* none): _delegate_error, and the except clauses of list_events,
\* respond_to_event and list_rooms.
FallbackMessage(t, ue, e) ==
    CASE t \in {"create_event", "update_event", "cancel_event"}
            /\ ue /\ IsAccessDenied(e) ->
           "You don't have permission to modify <user_email>'s calendar."
      [] t = "list_events" /\ ue /\ IsAccessDenied(e) ->
           "You don't have permission to view <user_email>'s calendar."
      [] t = "respond_to_event" /\ ue /\ IsAccessDenied(e) ->
           "You don't have permission to respond to events on <user_email>'s calendar."
      [] t = "list_rooms" /\ e.status_code \in {400, 403, 404} ->
           "Room discovery requires a work/school Microsoft 365 account."
      [] OTHER -> None

\* The except GraphApiError clause of tool t raises AttributeError: in
\* _is_access_denied (reached when user_email is given) or in
\* graph_error_response.
HandlerRaises(t, ue, e) ==
    \/ t \in DelegateTools /\ ue /\ IsAccessDeniedRaises(e)
    \/ LowerRaises(e)

\* _helpers.auth_required_response: the sign-in instructions as a response.
AuthRequiredResponse ==
    [kind |-> "auth_required", errorType |-> "auth_required", statusCode |-> 0,
     error |-> BodyMessage("Sign in to continue."), errorCode |-> None,
     retryAfterSeconds |-> NoSeconds]

\* What a tool returns when its client operations all returned.
SuccessResponse ==
    [kind |-> "ok", errorType |-> None, statusCode |-> 0,
     error |-> BodyMessage(""), errorCode |-> None,
     retryAfterSeconds |-> NoSeconds]

\* The client operation the tool awaits (none when its arguments were
\* rejected above the first client call), whether it has ended, and how.
Operation(c) == IF step[c] = 0 THEN None ELSE plan[c][step[c]]
OperationDone(c) ==
    IF Operation(c) = "GET_ALL" THEN allPc[c] = "done" ELSE pc[c] = "done"
OperationOutcome(c) ==
    IF Operation(c) = "GET_ALL" THEN allOutcome[c] ELSE outcome[c]

\* The locals of an earlier get_all are gone when the tool that awaited it
\* has ended.
ForgetPages(c) ==
    /\ allPc' = [allPc EXCEPT ![c] = "idle"]
    /\ max_pages' = [max_pages EXCEPT ![c] = 0]
    /\ path' = [path EXCEPT ![c] = None]
    /\ data' = [data EXCEPT ![c] = NoData]
    /\ all_items' = [all_items EXCEPT ![c] = <<>>]
    /\ pages' = [pages EXCEPT ![c] = 0]
    /\ next_link' = [next_link EXCEPT ![c] = Absent]
    /\ pagePaths' = [pagePaths EXCEPT ![c] = <<>>]
    /\ pageBodies' = [pageBodies EXCEPT ![c] = <<>>]
    /\ allOutcome' = [allOutcome EXCEPT ![c] = "pending"]
    /\ allResult' = [allResult EXCEPT ![c] = NoData]
    /\ allCalls' = [allCalls EXCEPT ![c] = 0]

\* What the awaited operation returned is a dict (or None, for delete).
ResultIsObject(c) ==
    \/ Operation(c) = "GET_ALL"
    \/ result[c] \in {"{}", None}
    \/ returned[c].body.kind = "object"

\* The tool may call .get on what the operation returned: cancel_event and
\* respond_to_event do not use it.
MayReadResult(t) == t \notin {"cancel_event", "respond_to_event"}

\* The tool calls .get on it whatever its arguments: update_event reads the
\* existing event only for the start/end members it was not given.
MustReadResult(t, i) == MayReadResult(t) /\ ~(t = "update_event" /\ i = 1)

\* The tool awaits the client operation op.
AwaitOperation(c, op) ==
    IF op = "GET_ALL"
    THEN StartGetAll(c, DefaultMaxPages)
    ELSE StartCall(c, op) /\ ForgetPages(c)

\* The local checks of the arguments that tool t makes (validate_emails,
\* validate_timezone, validate_datetime_order, _build_recurrence, "if not
\* updates"); list_events, cancel_event and respond_to_event have no email
\* argument but user_email.
Checks(t, ue) ==
    CASE t = "create_event" ->
           {"invalid_email", "invalid_timezone", "invalid_datetime",
            "invalid_recurrence"}
      [] t = "update_event" ->
           {"invalid_email", "invalid_timezone", "invalid_datetime", "no_fields"}
      [] t \in {"get_free_busy", "find_meeting_times"} ->
           {"invalid_email", "invalid_timezone", "invalid_datetime"}
      [] t = "list_events" ->
           {"invalid_datetime"} \cup (IF ue THEN {"invalid_email"} ELSE {})
      [] t \in {"cancel_event", "respond_to_event"} ->
           IF ue THEN {"invalid_email"} ELSE {}
      [] OTHER -> {}

\* The checks tool t makes after the client operations before the last of
\* the plan p: update_event tests "if not updates" and the datetime order
\* below the read of the existing event.
LateChecks(t, p) ==
    IF t = "update_event" /\ Len(p) = 2
    THEN {"no_fields", "invalid_datetime"}
    ELSE {}

\* {"error": err}, what a tool returns when a local check fails.
ValidationError ==
    [kind |-> "rejected", errorType |-> None, statusCode |-> 0,
     error |-> BodyMessage("The arguments are not valid."), errorCode |-> None,
     retryAfterSeconds |-> NoSeconds]

\* The locals of an earlier client call are gone when the tool that awaited
\* it has ended.
ForgetCall(c) ==
    /\ pc' = [pc EXCEPT ![c] = "idle"]
    /\ method' = [method EXCEPT ![c] = "GET"]
    /\ attempt' = [attempt EXCEPT ![c] = 0]
    /\ headers' = [headers EXCEPT ![c] = 0]
    /\ resp' = [resp EXCEPT ![c] = NoResp]
    /\ returned' = [returned EXCEPT ![c] = NoResp]
    /\ outcome' = [outcome EXCEPT ![c] = "pending"]
    /\ err' = [err EXCEPT ![c] = NoError]
    /\ result' = [result EXCEPT ![c] = None]
    /\ httpCalls' = [httpCalls EXCEPT ![c] = 0]
    /\ acquired' = [acquired EXCEPT ![c] = <<>>]
    /\ clears' = [clears EXCEPT ![c] = 0]
    /\ errorsBuilt' = [errorsBuilt EXCEPT ![c] = 0]
    /\ sleeps' = [sleeps EXCEPT ![c] = <<>>]
    /\ clockRead' = [clockRead EXCEPT ![c] = NoSeconds]
    /\ received' = [received EXCEPT ![c] = <<>>]

\* A tool is invoked with arguments that one of its checks above the first
\* client operation rejects: it returns the error.
ToolRejects(c, t, ue, p, a) ==
    /\ c \in active
    /\ toolPc[c] \in {"idle", "done"}
    /\ p \in Plans(t)
    /\ ue => t \in DelegateTools
    /\ a \in Checks(t, ue) \ LateChecks(t, p)
    /\ tool' = [tool EXCEPT ![c] = t]
    /\ user_email' = [user_email EXCEPT ![c] = ue]
    /\ args' = [args EXCEPT ![c] = a]
    /\ plan' = [plan EXCEPT ![c] = p]
    /\ step' = [step EXCEPT ![c] = 0]
    /\ toolPc' = [toolPc EXCEPT ![c] = "done"]
    /\ toolOutcome' = [toolOutcome EXCEPT ![c] = "response"]
    /\ toolResponse' = [toolResponse EXCEPT ![c] = ValidationError]
    /\ ForgetCall(c)
    /\ ForgetPages(c)
    /\ UNCHANGED <<active, cacheFile>>

\* A tool is invoked with arguments that pass the checks above its first
\* client operation: it awaits that operation.
StartTool(c, t, ue, p, a) ==
    /\ c \in active
    /\ toolPc[c] \in {"idle", "done"}
    /\ p \in Plans(t)
    /\ ue => t \in DelegateTools
    /\ a \in {"valid"} \cup (Checks(t, ue) \cap LateChecks(t, p))
    /\ tool' = [tool EXCEPT ![c] = t]
    /\ user_email' = [user_email EXCEPT ![c] = ue]
    /\ args' = [args EXCEPT ![c] = a]
    /\ plan' = [plan EXCEPT ![c] = p]
    /\ step' = [step EXCEPT ![c] = 1]
    /\ toolPc' = [toolPc EXCEPT ![c] = "call"]
    /\ toolOutcome' = [toolOutcome EXCEPT ![c] = "pending"]
    /\ toolResponse' = [toolResponse EXCEPT ![c] = NoResponse]
    /\ AwaitOperation(c, p[1])

\* The tool ends by returning response.
ToolReturn(c, response) ==
    /\ toolPc' = [toolPc EXCEPT ![c] = "done"]
    /\ toolOutcome' = [toolOutcome EXCEPT ![c] = "response"]
    /\ toolResponse' = [toolResponse EXCEPT ![c] = response]
    /\ UNCHANGED <<active, cacheFile, callVars, pageVars, tool, user_email,
                   args, plan, step>>

\* An exception leaves the tool.
ToolRaise(c, exc) ==
    /\ toolPc' = [toolPc EXCEPT ![c] = "done"]
    /\ toolOutcome' = [toolOutcome EXCEPT ![c] = exc]
    /\ UNCHANGED <<active, cacheFile, callVars, pageVars, tool, user_email,
                   args, plan, step, toolResponse>>

\* The awaited operation returned and the tool has another to await; the
\* second operation of get_my_profile is also awaited after the first.
ToolNextOperation(c) ==
    /\ toolPc[c] = "call"
    /\ OperationDone(c)
    /\ OperationOutcome(c) = "returned"
    /\ ResultIsObject(c) \/ ~MustReadResult(tool[c], step[c])
    /\ step[c] < Len(plan[c])
    /\ args[c] = "valid"
    /\ step' = [step EXCEPT ![c] = @ + 1]
    /\ AwaitOperation(c, plan[c][step[c] + 1])
    /\ UNCHANGED <<tool, user_email, args, plan, toolPc, toolOutcome,
                   toolResponse>>

\* Variant: the checks are made below the patch.
ToolRejectsAfterRead_BelowPatch(c) ==
    /\ toolPc[c] = "call"
    /\ OperationDone(c)
    /\ OperationOutcome(c) = "returned"
    /\ ResultIsObject(c)
    /\ tool[c] = "update_event"
    /\ step[c] = Len(plan[c])
    /\ ToolReturn(c, ValidationError)

\* update_event: the existing event was read and "if not updates" or
\* validate_datetime_order rejects the arguments; no patch is made.
ToolRejectsAfterRead(c) ==
    /\ toolPc[c] = "call"
    /\ OperationDone(c)
    /\ OperationOutcome(c) = "returned"
    /\ ResultIsObject(c)
    /\ step[c] < Len(plan[c])
    /\ args[c] \in LateChecks(tool[c], plan[c])
    /\ ToolReturn(c, ValidationError)

\* The last awaited operation returned: the tool formats and returns it.
ToolSucceeds(c) ==
    /\ toolPc[c] = "call"
    /\ OperationDone(c)
    /\ OperationOutcome(c) = "returned"
    /\ ResultIsObject(c) \/ ~MustReadResult(tool[c], step[c])
    /\ step[c] = Len(plan[c])
    /\ ToolReturn(c, SuccessResponse)

\* The awaited operation returned JSON that is not an object and the tool
\* calls .get on it: AttributeError leaves the tool.
ToolReadRaises(c) ==
    /\ toolPc[c] = "call"
    /\ OperationDone(c)
    /\ OperationOutcome(c) = "returned"
    /\ ~ResultIsObject(c)
    /\ MayReadResult(tool[c])
    /\ ToolRaise(c, "AttributeError")

\* get_my_profile: a GraphApiError of the mailboxSettings read is passed
\* over ("except GraphApiError: pass") and the profile is returned.
ProfileWithoutTimezone(c) ==
    /\ toolPc[c] = "call"
    /\ OperationDone(c)
    /\ OperationOutcome(c) = "GraphApiError"
    /\ tool[c] = "get_my_profile"
    /\ step[c] = 2
    /\ ToolReturn(c, SuccessResponse)

\* except GraphApiError: the tool returns graph_error_response(exc, ...).
ToolGraphError(c) ==
    /\ toolPc[c] = "call"
    /\ OperationDone(c)
    /\ OperationOutcome(c) = "GraphApiError"
    /\ ~(tool[c] = "get_my_profile" /\ step[c] = 2)
    /\ ~HandlerRaises(tool[c], user_email[c], err[c])
    /\ ToolReturn(c, GraphErrorResponse(err[c],
                        FallbackMessage(tool[c], user_email[c], err[c])))

\* except GraphApiError: (exc.code or "").lower() raises AttributeError,
\* which leaves the tool.
ToolGraphErrorRaises(c) ==
    /\ toolPc[c] = "call"
    /\ OperationDone(c)
    /\ OperationOutcome(c) = "GraphApiError"
    /\ ~(tool[c] = "get_my_profile" /\ step[c] = 2)
    /\ HandlerRaises(tool[c], user_email[c], err[c])
    /\ ToolRaise(c, "AttributeError")

\* except AuthenticationRequired: the tool returns
\* auth_required_response(exc).
ToolAuthenticationRequired(c) ==
    /\ toolPc[c] = "call"
    /\ OperationDone(c)
    /\ OperationOutcome(c) = "AuthenticationRequired"
    /\ CatchesAuthenticationRequired(tool[c])
    /\ ToolReturn(c, AuthRequiredResponse)

\* No except clause of the tool matches the exception of the awaited
\* operation: it leaves the tool.
ToolPropagates(c) ==
    /\ toolPc[c] = "call"
    /\ OperationDone(c)
    /\ OperationOutcome(c) \notin {"pending", "returned", "GraphApiError"}
    /\ OperationOutcome(c) = "AuthenticationRequired"
          => ~CatchesAuthenticationRequired(tool[c])
    /\ ToolRaise(c, OperationOutcome(c))

\* ------------------------------------------------------------------------
\* get_token and clear_cache, step by step (auth.py)
\* ------------------------------------------------------------------------
\* _auth_headers() of call c hands get_token to a worker thread.
CallGetToken(c) ==
    /\ c \in active
    /\ tokenPc[c] \in {"idle", "done"}
    /\ tokenPc' = [tokenPc EXCEPT ![c] = "env"]
    /\ cache' = [cache EXCEPT ![c] = "none"]
    /\ changed' = [changed EXCEPT ![c] = FALSE]
    /\ tokenOutcome' = [tokenOutcome EXCEPT ![c] = "pending"]
    /\ written' = [written EXCEPT ![c] = FALSE]
    /\ stale' = [stale EXCEPT ![c] = FALSE]
    /\ sawInvalidated' = [sawInvalidated EXCEPT ![c] = FALSE]
    /\ UNCHANGED <<cacheFile, invalidated>>

\* get_token ends by raising exc.
TokenRaise(c, exc) ==
    /\ tokenPc' = [tokenPc EXCEPT ![c] = "done"]
    /\ tokenOutcome' = [tokenOutcome EXCEPT ![c] = exc]
    /\ UNCHANGED <<cacheFile, cache, changed, written, stale, sawInvalidated,
                   invalidated>>

\* _load_env raises RuntimeError: CLIENT_ID or TENANT_ID is not set.
LoadEnvRaises(c) ==
    /\ tokenPc[c] = "env"
    /\ TokenRaise(c, "RuntimeError")

\* Variant: the cache object of an earlier get_token is used again.
BuildCache_Memoized(c) ==
    /\ tokenPc[c] = "env"
    /\ tokenPc' = [tokenPc EXCEPT ![c] = "built"]
    /\ cache' = [cache EXCEPT ![c] = "account"]
    /\ sawInvalidated' = [sawInvalidated EXCEPT ![c] = invalidated]
    /\ UNCHANGED <<cacheFile, changed, tokenOutcome, written, stale, invalidated>>

\* _build_cache: a new cache object, deserialized from the cache file when
\* the file exists.
BuildCache(c) ==
    /\ tokenPc[c] = "env"
    /\ tokenPc' = [tokenPc EXCEPT ![c] = "built"]
    /\ cache' = [cache EXCEPT ![c] =
                   IF cacheFile = "present" THEN "account" ELSE "empty"]
    /\ sawInvalidated' = [sawInvalidated EXCEPT ![c] = invalidated]
    /\ UNCHANGED <<cacheFile, changed, tokenOutcome, written, stale, invalidated>>

\* app.get_accounts() is not empty and acquire_token_silent returns an
\* access token; refreshed says whether MSAL used the refresh token, which
\* changes the cache object.
AcquireSilent(c, refreshed) ==
    /\ tokenPc[c] = "built"
    /\ cache[c] = "account"
    /\ tokenPc' = [tokenPc EXCEPT ![c] = "save"]
    /\ changed' = [changed EXCEPT ![c] = refreshed]
    /\ UNCHANGED <<cacheFile, cache, tokenOutcome, written, stale,
                   sawInvalidated, invalidated>>

\* There is no account, or acquire_token_silent gives no token: the
\* device-code flow is started and get_token raises AuthenticationRequired,
\* or RuntimeError when the flow has no user_code.
DeviceFlowRaises(c, exc) ==
    /\ tokenPc[c] = "built"
    /\ exc \in {"AuthenticationRequired", "RuntimeError"}
    /\ TokenRaise(c, exc)

\* _save_cache(cache), then return the token: the file is written when
\* cache.has_state_changed.
SaveCache(c) ==
    /\ tokenPc[c] = "save"
    /\ tokenPc' = [tokenPc EXCEPT ![c] = "done"]
    /\ tokenOutcome' = [tokenOutcome EXCEPT ![c] = "token"]
    /\ IF changed[c]
       THEN /\ cacheFile' = "present"
            /\ written' = [written EXCEPT ![c] = TRUE]
            /\ invalidated' = FALSE
       ELSE UNCHANGED <<cacheFile, written, invalidated>>
    /\ UNCHANGED <<cache, changed, stale, sawInvalidated>>

\* The thread of d holds a cache object with an account loaded from the
\* file.
HoldsLoadedAccount(d) ==
    tokenPc[d] \in {"built", "save"} /\ cache[d] = "account"

\* clear_cache(), called on the event loop by the executor of call c (which
\* is not awaiting a get_token of its own): the cache file is unlinked when
\* it exists.
ClearCache(c) ==
    /\ c \in active
    /\ tokenPc[c] \in {"idle", "done"}
    /\ cacheFile' = "absent"
    /\ invalidated' = TRUE
    /\ stale' = [d \in Calls |-> stale[d] \/ HoldsLoadedAccount(d)]
    /\ UNCHANGED <<tokenPc, cache, changed, tokenOutcome, written,
                   sawInvalidated>>

\* The user signs in with the setup script, which writes the cache file.
SignIn ==
    /\ CompleteDeviceFlow
    /\ invalidated' = FALSE
    /\ UNCHANGED <<tokenPc, cache, changed, tokenOutcome, written, stale,
                   sawInvalidated>>

\* get_token in the worker threads of two calls, clear_cache on the event
\* loop, and the sign-in of the setup script.
NextAuth ==
    \/ \E c \in Calls : CallGetToken(c) /\ UNCHANGED <<active, callVars, pageVars, toolVars>>
    \/ \E c \in Calls : LoadEnvRaises(c) /\ UNCHANGED <<active, callVars, pageVars, toolVars>>
    \/ \E c \in Calls : BuildCache(c) /\ UNCHANGED <<active, callVars, pageVars, toolVars>>
    \/ \E c \in Calls, refreshed \in BOOLEAN :
          AcquireSilent(c, refreshed) /\ UNCHANGED <<active, callVars, pageVars, toolVars>>
    \/ \E c \in Calls, exc \in {"AuthenticationRequired", "RuntimeError"} :
          DeviceFlowRaises(c, exc) /\ UNCHANGED <<active, callVars, pageVars, toolVars>>
    \/ \E c \in Calls : SaveCache(c) /\ UNCHANGED <<active, callVars, pageVars, toolVars>>
    \/ \E c \in Calls : ClearCache(c) /\ UNCHANGED <<active, callVars, pageVars, toolVars>>
    \/ SignIn /\ UNCHANGED <<pageVars, toolVars>>

SpecAuth == InitConcurrent /\ [][NextAuth]_vars

\* get, post, patch and delete, called directly.
Next ==
    \/ \E c \in Calls, m \in Methods : StartCall(c, m) /\ UNCHANGED <<pageVars, toolVars, authVars>>
    \/ \E c \in Calls : AcquireHeaders(c) /\ UNCHANGED <<pageVars, toolVars, authVars>>
    \/ \E c \in Calls, exc \in {"AuthenticationRequired", "RuntimeError"} :
          AcquireRaises(c, exc) /\ UNCHANGED <<pageVars, toolVars, authVars>>
    \/ \E c \in Calls : SendRequest(c) /\ UNCHANGED <<pageVars, toolVars, authVars>>
    \/ \E c \in Calls : TransportFailure(c) /\ UNCHANGED <<pageVars, toolVars, authVars>>
    \/ \E c \in Calls, r \in Responses :
          AuthFailureOnFirstAttempt(c, r) /\ UNCHANGED <<pageVars, toolVars, authVars>>
    \/ \E c \in Calls, r \in Responses :
          ClassifierRaises(c, r) /\ UNCHANGED <<pageVars, toolVars, authVars>>
    \/ \E c \in Calls, r \in Responses, now \in Clock :
          ReturnTerminal(c, r, now) /\ UNCHANGED <<pageVars, toolVars, authVars>>
    \/ \E c \in Calls, r \in Responses :
          RetryAfterRaises(c, r) /\ UNCHANGED <<pageVars, toolVars, authVars>>
    \/ \E c \in Calls, r \in Responses, now \in Clock :
          BackoffOnTransient(c, r, now) /\ UNCHANGED <<pageVars, toolVars, authVars>>
    \/ \E c \in Calls : ReacquireHeaders(c) /\ UNCHANGED <<pageVars, toolVars, authVars>>
    \/ \E c \in Calls, now \in Clock :
          ReacquireNeedsSignIn(c, now) /\ UNCHANGED <<pageVars, toolVars, authVars>>
    \/ \E c \in Calls : ReacquireRaises(c) /\ UNCHANGED <<pageVars, toolVars, authVars>>
    \/ \E c \in Calls : WakeAndRetry(c) /\ UNCHANGED <<pageVars, toolVars, authVars>>
    \/ \E c \in Calls, now \in Clock :
          RetriesExhausted(c, now) /\ UNCHANGED <<pageVars, toolVars, authVars>>
    \/ CompleteDeviceFlow /\ UNCHANGED <<pageVars, toolVars, authVars>>

Spec == Init /\ [][Next]_vars

\* get_all, called against the server of a paged collection.
NextPages ==
    \/ \E c \in Calls, mp \in MaxPagesArgs : StartGetAll(c, mp) /\ UNCHANGED <<toolVars, authVars>>
    \/ \E c \in Calls : AcquireHeaders(c) /\ UNCHANGED <<pageVars, toolVars, authVars>>
    \/ \E c \in Calls, exc \in {"AuthenticationRequired", "RuntimeError"} :
          AcquireRaises(c, exc) /\ UNCHANGED <<pageVars, toolVars, authVars>>
    \/ \E c \in Calls : SendRequest(c) /\ UNCHANGED <<pageVars, toolVars, authVars>>
    \/ \E c \in Calls : TransportFailure(c) /\ UNCHANGED <<pageVars, toolVars, authVars>>
    \/ \E c \in Calls, r \in PagedServerResponses :
          AuthFailureOnFirstAttempt(c, r) /\ UNCHANGED <<pageVars, toolVars, authVars>>
    \/ \E c \in Calls, r \in PagedServerResponses :
          ClassifierRaises(c, r) /\ UNCHANGED <<pageVars, toolVars, authVars>>
    \/ \E c \in Calls, r \in PagedServerResponses, now \in Clock :
          ReturnTerminal(c, r, now) /\ UNCHANGED <<pageVars, toolVars, authVars>>
    \/ \E c \in Calls, r \in PagedServerResponses :
          RetryAfterRaises(c, r) /\ UNCHANGED <<pageVars, toolVars, authVars>>
    \/ \E c \in Calls, r \in PagedServerResponses, now \in Clock :
          BackoffOnTransient(c, r, now) /\ UNCHANGED <<pageVars, toolVars, authVars>>
    \/ \E c \in Calls : ReacquireHeaders(c) /\ UNCHANGED <<pageVars, toolVars, authVars>>
    \/ \E c \in Calls, now \in Clock :
          ReacquireNeedsSignIn(c, now) /\ UNCHANGED <<pageVars, toolVars, authVars>>
    \/ \E c \in Calls : ReacquireRaises(c) /\ UNCHANGED <<pageVars, toolVars, authVars>>
    \/ \E c \in Calls : WakeAndRetry(c) /\ UNCHANGED <<pageVars, toolVars, authVars>>
    \/ \E c \in Calls, now \in Clock :
          RetriesExhausted(c, now) /\ UNCHANGED <<pageVars, toolVars, authVars>>
    \/ \E c \in Calls : GetRaises(c) /\ UNCHANGED <<toolVars, authVars>>
    \/ \E c \in Calls : PageNotObject(c) /\ UNCHANGED <<toolVars, authVars>>
    \/ \E c \in Calls : NextPage(c) /\ UNCHANGED <<toolVars, authVars>>
    \/ \E c \in Calls : ReturnAll(c) /\ UNCHANGED <<toolVars, authVars>>
    \/ CompleteDeviceFlow /\ UNCHANGED <<pageVars, toolVars, authVars>>

SpecPages == Init /\ [][NextPages]_vars

\* A step of a get_all of call c between its start and its end.
ProceedAll(c) ==
    \/ /\ \/ AcquireHeaders(c)
          \/ \E exc \in {"AuthenticationRequired", "RuntimeError"} :
                AcquireRaises(c, exc)
          \/ SendRequest(c)
          \/ TransportFailure(c)
          \/ \E r \in PagedServerResponses, now \in Clock :
                \/ AuthFailureOnFirstAttempt(c, r)
                \/ ClassifierRaises(c, r)
                \/ ReturnTerminal(c, r, now)
                \/ RetryAfterRaises(c, r)
                \/ BackoffOnTransient(c, r, now)
          \/ ReacquireHeaders(c)
          \/ \E now \in Clock : ReacquireNeedsSignIn(c, now)
          \/ ReacquireRaises(c)
          \/ WakeAndRetry(c)
          \/ \E now \in Clock : RetriesExhausted(c, now)
       /\ UNCHANGED <<pageVars, toolVars, authVars>>
    \/ /\ \/ GetRaises(c)
          \/ PageNotObject(c)
          \/ NextPage(c)
          \/ ReturnAll(c)
       /\ UNCHANGED <<toolVars, authVars>>

\* Every HTTP request, token acquisition and sleep of a get_all returns.
SpecPagesFair == SpecPages /\ \A c \in Calls : WF_vars(ProceedAll(c))

\* The tools, invoked one after another.
NextTools ==
    \/ \E c \in Calls, t \in Tools, ue \in BOOLEAN :
          \E p \in Plans(t), a \in {"valid"} \cup Checks(t, ue) :
             StartTool(c, t, ue, p, a) /\ UNCHANGED authVars
    \/ \E c \in Calls, t \in Tools, ue \in BOOLEAN :
          \E p \in Plans(t), a \in Checks(t, ue) : ToolRejects(c, t, ue, p, a) /\ UNCHANGED authVars
    \/ \E c \in Calls :
          AcquireHeaders(c) /\ UNCHANGED <<pageVars, toolVars, authVars>>
    \/ \E c \in Calls, exc \in {"AuthenticationRequired", "RuntimeError"} :
          AcquireRaises(c, exc) /\ UNCHANGED <<pageVars, toolVars, authVars>>
    \/ \E c \in Calls : SendRequest(c) /\ UNCHANGED <<pageVars, toolVars, authVars>>
    \/ \E c \in Calls :
          TransportFailure(c) /\ UNCHANGED <<pageVars, toolVars, authVars>>
    \/ \E c \in Calls, r \in ToolServerResponses :
          AuthFailureOnFirstAttempt(c, r) /\ UNCHANGED <<pageVars, toolVars, authVars>>
    \/ \E c \in Calls, r \in ToolServerResponses :
          ClassifierRaises(c, r) /\ UNCHANGED <<pageVars, toolVars, authVars>>
    \/ \E c \in Calls, r \in ToolServerResponses, now \in Clock :
          ReturnTerminal(c, r, now) /\ UNCHANGED <<pageVars, toolVars, authVars>>
    \/ \E c \in Calls, r \in ToolServerResponses :
          RetryAfterRaises(c, r) /\ UNCHANGED <<pageVars, toolVars, authVars>>
    \/ \E c \in Calls, r \in ToolServerResponses, now \in Clock :
          BackoffOnTransient(c, r, now) /\ UNCHANGED <<pageVars, toolVars, authVars>>
    \/ \E c \in Calls :
          ReacquireHeaders(c) /\ UNCHANGED <<pageVars, toolVars, authVars>>
    \/ \E c \in Calls, now \in Clock :
          ReacquireNeedsSignIn(c, now) /\ UNCHANGED <<pageVars, toolVars, authVars>>
    \/ \E c \in Calls :
          ReacquireRaises(c) /\ UNCHANGED <<pageVars, toolVars, authVars>>
    \/ \E c \in Calls : WakeAndRetry(c) /\ UNCHANGED <<pageVars, toolVars, authVars>>
    \/ \E c \in Calls, now \in Clock :
          RetriesExhausted(c, now) /\ UNCHANGED <<pageVars, toolVars, authVars>>
    \/ \E c \in Calls : GetRaises(c) /\ UNCHANGED <<toolVars, authVars>>
    \/ \E c \in Calls : PageNotObject(c) /\ UNCHANGED <<toolVars, authVars>>
    \/ \E c \in Calls : NextPage(c) /\ UNCHANGED <<toolVars, authVars>>
    \/ \E c \in Calls : ReturnAll(c) /\ UNCHANGED <<toolVars, authVars>>
    \/ \E c \in Calls : ToolNextOperation(c) /\ UNCHANGED authVars
    \/ \E c \in Calls : ToolRejectsAfterRead(c) /\ UNCHANGED authVars
    \/ \E c \in Calls : ToolSucceeds(c) /\ UNCHANGED authVars
    \/ \E c \in Calls : ToolReadRaises(c) /\ UNCHANGED authVars
    \/ \E c \in Calls : ProfileWithoutTimezone(c) /\ UNCHANGED authVars
    \/ \E c \in Calls : ToolGraphError(c) /\ UNCHANGED authVars
    \/ \E c \in Calls : ToolGraphErrorRaises(c) /\ UNCHANGED authVars
    \/ \E c \in Calls : ToolAuthenticationRequired(c) /\ UNCHANGED authVars
    \/ \E c \in Calls : ToolPropagates(c) /\ UNCHANGED authVars
    \/ CompleteDeviceFlow /\ UNCHANGED <<pageVars, toolVars, authVars>>

SpecTools == Init /\ [][NextTools]_vars

\* What the server answers to the requests of two concurrent calls.
ConcurrentResponses ==
    {Response(200, PlainObject, NoHeader),
     Response(401, EmptyBody, NoHeader),
     Response(403, ErrorBody(JsonNull), NoHeader),
     Response(404, ErrorBody("ErrorItemNotFound"), NoHeader),
     Response(429, ErrorBody("TooManyRequests"), HugeZoneDateHeader),
     Response(503, TextBody, NoHeader)}

\* A step of call c between its start and its end.
Proceed(c) ==
    \/ AcquireHeaders(c)
    \/ \E exc \in {"AuthenticationRequired", "RuntimeError"} : AcquireRaises(c, exc)
    \/ SendRequest(c)
    \/ TransportFailure(c)
    \/ \E r \in ConcurrentResponses :
          \/ AuthFailureOnFirstAttempt(c, r)
          \/ ClassifierRaises(c, r)
          \/ ReturnTerminal(c, r, 0)
          \/ RetryAfterRaises(c, r)
          \/ BackoffOnTransient(c, r, 0)
    \/ ReacquireHeaders(c)
    \/ ReacquireNeedsSignIn(c, 0)
    \/ ReacquireRaises(c)
    \/ WakeAndRetry(c)
    \/ RetriesExhausted(c, 0)

\* Two logical calls on the same GraphClient, interleaved at their awaits.
NextConcurrent ==
    \/ \E c \in Calls : StartCall(c, "GET") /\ UNCHANGED <<pageVars, toolVars, authVars>>
    \/ \E c \in Calls : AcquireHeaders(c) /\ UNCHANGED <<pageVars, toolVars, authVars>>
    \/ \E c \in Calls, exc \in {"AuthenticationRequired", "RuntimeError"} :
          AcquireRaises(c, exc) /\ UNCHANGED <<pageVars, toolVars, authVars>>
    \/ \E c \in Calls : SendRequest(c) /\ UNCHANGED <<pageVars, toolVars, authVars>>
    \/ \E c \in Calls : TransportFailure(c) /\ UNCHANGED <<pageVars, toolVars, authVars>>
    \/ \E c \in Calls, r \in ConcurrentResponses :
          AuthFailureOnFirstAttempt(c, r) /\ UNCHANGED <<pageVars, toolVars, authVars>>
    \/ \E c \in Calls, r \in ConcurrentResponses :
          ClassifierRaises(c, r) /\ UNCHANGED <<pageVars, toolVars, authVars>>
    \/ \E c \in Calls, r \in ConcurrentResponses :
          ReturnTerminal(c, r, 0) /\ UNCHANGED <<pageVars, toolVars, authVars>>
    \/ \E c \in Calls, r \in ConcurrentResponses :
          RetryAfterRaises(c, r) /\ UNCHANGED <<pageVars, toolVars, authVars>>
    \/ \E c \in Calls, r \in ConcurrentResponses :
          BackoffOnTransient(c, r, 0) /\ UNCHANGED <<pageVars, toolVars, authVars>>
    \/ \E c \in Calls : ReacquireHeaders(c) /\ UNCHANGED <<pageVars, toolVars, authVars>>
    \/ \E c \in Calls :
          ReacquireNeedsSignIn(c, 0) /\ UNCHANGED <<pageVars, toolVars, authVars>>
    \/ \E c \in Calls : ReacquireRaises(c) /\ UNCHANGED <<pageVars, toolVars, authVars>>
    \/ \E c \in Calls : WakeAndRetry(c) /\ UNCHANGED <<pageVars, toolVars, authVars>>
    \/ \E c \in Calls :
          RetriesExhausted(c, 0) /\ UNCHANGED <<pageVars, toolVars, authVars>>
    \/ CompleteDeviceFlow /\ UNCHANGED <<pageVars, toolVars, authVars>>

SpecConcurrent == InitConcurrent /\ [][NextConcurrent]_vars

\* Every request, token acquisition and sleep of a call returns.
SpecConcurrentFair ==
    /\ SpecConcurrent
    /\ \A c \in Calls :
          WF_vars(Proceed(c) /\ UNCHANGED <<pageVars, toolVars, authVars>>)

\* ------------------------------------------------------------------------
\* Vocabulary of the properties
\* ------------------------------------------------------------------------
Done(c) == pc[c] = "done"

Last(seq) == seq[Len(seq)]

\* Every HTTP request of the call was answered by a response (none failed
\* at transport level, none is still in flight).
AllAnswered(c) == Len(received[c]) = httpCalls[c]

TransientStatus(r) == r.status \in {429, 503, 504}

\* An auth-failure response in the words of the specification: a 401, or a
\* 403 whose error code, lower-cased, is invalidauthenticationtoken or
\* unauthorized.
InvalidTokenCodes ==
    {"InvalidAuthenticationToken", "invalidauthenticationtoken",
     "Unauthorized", "UNAUTHORIZED"}

AuthFailureResponse(r) ==
    \/ r.status = 401
    \/ /\ r.status = 403
       /\ r.body.kind = "object"
       /\ r.body.error = "object"
       /\ r.body.code \in InvalidTokenCodes

\* ------------------------------------------------------------------------
\* Properties
\* ------------------------------------------------------------------------
\* C1: a call that has ended, issued at least one HTTP request and got, to
\* every request, a response with status 429, 503 or 504, issued exactly 3
\* requests; the executor returned the last response and the caller got a
\* GraphApiError with that response's status.
C1_TransientExhausted ==
    \A c \in Calls :
        (/\ Done(c)
         /\ httpCalls[c] >= 1
         /\ AllAnswered(c)
         /\ \A k \in 1..Len(received[c]) : TransientStatus(received[c][k]))
        => /\ httpCalls[c] = 3
           /\ returned[c] = Last(received[c])
           /\ outcome[c] = "GraphApiError"
           /\ errorsBuilt[c] = 1
           /\ err[c].status_code = Last(received[c]).status

\* C2: when a transient response is followed by a non-transient one, the
\* executor returns that later response and the call's outcome is the later
\* response's: a GraphApiError with its status if it is an error, no
\* GraphApiError if it is a success, and the operation's result whenever the
\* operation can read the body. A GraphApiError with status 429, 503 or 504
\* reaches the caller only after 3 HTTP requests.
C2_TransientRecovered ==
    \A c \in Calls :
        /\ (/\ Done(c)
            /\ AllAnswered(c)
            /\ Len(received[c]) >= 2
            /\ \E k \in 1..(Len(received[c]) - 1) : TransientStatus(received[c][k])
            /\ ~TransientStatus(Last(received[c])))
           => /\ returned[c] = Last(received[c])
              /\ Last(received[c]).status >= 400
                    => /\ outcome[c] = "GraphApiError"
                       /\ err[c].status_code = Last(received[c]).status
              /\ Last(received[c]).status < 400
                    => /\ outcome[c] \in {"returned", "JSONDecodeError"}
                       /\ errorsBuilt[c] = 0
                       /\ (method[c] = "DELETE"
                             \/ Last(received[c]).body.kind \in {"object", "array"})
                            => outcome[c] = "returned"
        /\ (outcome[c] = "GraphApiError" /\ err[c].status_code \in {429, 503, 504})
           => httpCalls[c] = 3

C2_Witness ==
    \E c \in Calls :
        /\ Done(c)
        /\ Len(received[c]) = 2
        /\ received[c][1].status = 503
        /\ received[c][2].status = 200
        /\ outcome[c] = "returned"
        /\ result[c] = "json"

\* C3: once the attempt-0 response of a call is a 401, clear_cache has been
\* called exactly once by the call, whatever follows, and _auth_headers is
\* called exactly twice (once more than the initial acquisition) as soon as
\* the re-acquisition has run; if the reissued request is answered 401 too,
\* the call ends with a GraphApiError of status 401 after exactly 2 requests.
C3_OneReauthOn401 ==
    \A c \in Calls :
        (Len(received[c]) >= 1 /\ received[c][1].status = 401)
        => /\ clears[c] = 1
           /\ Len(acquired[c]) = IF pc[c] = "reacquire" THEN 1 ELSE 2
           /\ (Len(received[c]) >= 2 /\ received[c][2].status = 401)
                => /\ Done(c)
                   /\ outcome[c] = "GraphApiError"
                   /\ err[c].status_code = 401
                   /\ httpCalls[c] = 2

C3_Witness ==
    \E c \in Calls :
        /\ Done(c)
        /\ Len(received[c]) = 2
        /\ received[c][1].status = 401
        /\ received[c][2].status = 401
        /\ clears[c] = 1
        /\ acquired[c] = <<"token", "token">>

\* C4: an auth-failure response received on attempt index >= 1 (the k-th
\* response, k >= 2) is terminal: it is the last response, the executor
\* returns it and the caller gets a GraphApiError with its status; it adds
\* no clear_cache call and no _auth_headers call to those the attempt-0
\* response caused.
C4_ReauthOnlyOnFirstAttempt ==
    \A c \in Calls :
        \A k \in 2..Len(received[c]) :
            AuthFailureResponse(received[c][k])
            => /\ k = Len(received[c])
               /\ Done(c)
               /\ returned[c] = received[c][k]
               /\ outcome[c] = "GraphApiError"
               /\ err[c].status_code = received[c][k].status
               /\ clears[c] = IF AuthFailureResponse(received[c][1]) THEN 1 ELSE 0
               /\ Len(acquired[c]) = 1 + clears[c]

C4_Witness ==
    \E c \in Calls :
        /\ Done(c)
        /\ Len(received[c]) = 2
        /\ received[c][1].status = 429
        /\ received[c][2].status = 403
        /\ AuthFailureResponse(received[c][2])
        /\ clears[c] = 0
        /\ Len(acquired[c]) = 1

\* C5: when the second _auth_headers call of a call raises
\* AuthenticationRequired, the call has ended with exactly 1 HTTP request and
\* exactly 1 clear_cache call, and its outcome is a GraphApiError built from
\* the attempt-0 response, not AuthenticationRequired.
C5_ReauthNeedsSignIn ==
    \A c \in Calls :
        (Len(acquired[c]) = 2 /\ acquired[c][2] = "AuthenticationRequired")
        => /\ Done(c)
           /\ httpCalls[c] = 1
           /\ Len(received[c]) = 1
           /\ clears[c] = 1
           /\ returned[c] = received[c][1]
           /\ outcome[c] = "GraphApiError"
           /\ errorsBuilt[c] = 1
           /\ err[c].status_code = received[c][1].status

C5_Witness ==
    \E c \in Calls :
        /\ acquired[c] = <<"token", "AuthenticationRequired">>
        /\ received[c][1].status = 403
        /\ outcome[c] = "GraphApiError"
        /\ err[c].status_code = 403

\* C6: when the first _auth_headers call of a call raises
\* AuthenticationRequired, the call has ended with that signal as its
\* outcome: no HTTP request, no clear_cache call, no second acquisition and
\* no GraphApiError.
C6_FirstAcquireSignals ==
    \A c \in Calls :
        (Len(acquired[c]) >= 1 /\ acquired[c][1] = "AuthenticationRequired")
        => /\ Done(c)
           /\ outcome[c] = "AuthenticationRequired"
           /\ httpCalls[c] = 0
           /\ clears[c] = 0
           /\ Len(acquired[c]) = 1
           /\ errorsBuilt[c] = 0
           /\ sleeps[c] = <<>>

C6_Witness ==
    \E c \in Calls :
        /\ acquired[c] = <<"AuthenticationRequired">>
        /\ outcome[c] = "AuthenticationRequired"
        /\ cacheFile = "present"

\* C7: when the attempt-0 response is a 403 with code ErrorAccessDenied, the
\* call has ended after exactly 1 HTTP request with a GraphApiError of status
\* 403 and code ErrorAccessDenied, with no clear_cache call and no second
\* _auth_headers call.
C7_AccessDeniedNoReauth ==
    \A c \in Calls :
        (/\ Len(received[c]) >= 1
         /\ received[c][1].status = 403
         /\ received[c][1].body = ErrorBody("ErrorAccessDenied"))
        => /\ Done(c)
           /\ httpCalls[c] = 1
           /\ clears[c] = 0
           /\ Len(acquired[c]) = 1
           /\ outcome[c] = "GraphApiError"
           /\ err[c].status_code = 403
           /\ err[c].code = "ErrorAccessDenied"

C7_Witness ==
    \E c \in Calls :
        /\ Done(c)
        /\ Len(received[c]) = 1
        /\ received[c][1].status = 403
        /\ received[c][1].body.code = "ErrorAccessDenied"
        /\ outcome[c] = "GraphApiError"
        /\ cacheFile = "present"

\* C8: _is_auth_failure answers true exactly for the auth-failure responses
\* and false for every other response. Seen from the executor on attempt 0:
\* after an auth-failure response (401 or invalid-token 403 alike) there is
\* one clear_cache call and one further _auth_headers call, and the request
\* is reissued once that call returned a token; after any other response the
\* test answered false, so there is no clear_cache call and the executor
\* went on to the transient test instead of failing in the classifier.
C8_AuthFailureClassification ==
    \A c \in Calls :
        Len(received[c]) >= 1
        => IF AuthFailureResponse(received[c][1])
           THEN /\ clears[c] = 1
                /\ Len(acquired[c]) = IF pc[c] = "reacquire" THEN 1 ELSE 2
                /\ (Len(acquired[c]) = 2 /\ acquired[c][2] = "token")
                     => (pc[c] = "send" \/ httpCalls[c] >= 2)
           ELSE /\ clears[c] = 0
                /\ Len(acquired[c]) = 1
                /\ outcome[c] # "AttributeError"

\* C9: when the attempt-0 response is neither transient nor an auth failure,
\* the executor has returned it after exactly 1 HTTP request, with no sleep,
\* no clear_cache call and no second _auth_headers call.
C9_NonTransientReturnsAtOnce ==
    \A c \in Calls :
        (/\ Len(received[c]) >= 1
         /\ ~TransientStatus(received[c][1])
         /\ ~AuthFailureResponse(received[c][1]))
        => /\ Done(c)
           /\ returned[c] = received[c][1]
           /\ httpCalls[c] = 1
           /\ sleeps[c] = <<>>
           /\ clears[c] = 0
           /\ Len(acquired[c]) = 1

ParsesNonJson(m, r) ==
    \/ m = "GET" /\ r.body.kind \in {"empty", "text"}
    \/ m = "POST" /\ r.status # 202 /\ r.body.kind = "text"
    \/ m = "PATCH" /\ r.body.kind = "text"

CodeOf(r) ==
    IF r.body.kind = "object" /\ r.body.error = "object"
        /\ r.body.code \notin {Absent, JsonNull}
    THEN r.body.code
    ELSE None

\* C11 as stated: when the attempt-0 response of a call was an auth failure
\* and the call ended with a GraphApiError, the error carries the status and
\* the code of that attempt-0 response.
C11_ErrorOfOriginalFailure ==
    \A c \in Calls :
        (/\ Done(c)
         /\ Len(received[c]) >= 1
         /\ AuthFailureResponse(received[c][1])
         /\ outcome[c] = "GraphApiError")
        => /\ err[c].status_code = received[c][1].status
           /\ err[c].code = CodeOf(received[c][1])

\* C11 as amended: the error carries the status and code of the attempt-0
\* response when the re-acquisition raised AuthenticationRequired, and those
\* of the last response received when the request was reissued.
C11_ErrorOfOriginalFailure_Amended ==
    \A c \in Calls :
        (/\ Done(c)
         /\ Len(received[c]) >= 1
         /\ AuthFailureResponse(received[c][1])
         /\ outcome[c] = "GraphApiError")
        => IF acquired[c][2] = "AuthenticationRequired"
           THEN /\ Len(received[c]) = 1
                /\ err[c].status_code = received[c][1].status
                /\ err[c].code = CodeOf(received[c][1])
           ELSE /\ Len(received[c]) >= 2
                /\ err[c].status_code = Last(received[c]).status
                /\ err[c].code = CodeOf(Last(received[c]))

C11_Witness ==
    \E c \in Calls :
        /\ Done(c)
        /\ Len(received[c]) = 2
        /\ received[c][1].status = 401
        /\ received[c][2].status = 404
        /\ outcome[c] = "GraphApiError"
        /\ err[c].status_code = 404
        /\ err[c].code = "ErrorItemNotFound"

\* C15 as stated: a post or patch whose final response is a success with
\* status 202 or with an empty body returns {}.
C15_EmptyResultFor202OrEmpty ==
    \A c \in Calls :
        (/\ Done(c)
         /\ method[c] \in {"POST", "PATCH"}
         /\ returned[c] # NoResp
         /\ returned[c].status < 400
         /\ (returned[c].status = 202 \/ returned[c].body.kind = "empty"))
        => /\ outcome[c] = "returned"
           /\ result[c] = "{}"

\* C15 as amended: post returns {} for a success with status 202 or an empty
\* body, whatever the body holds; patch returns {} for a success with an
\* empty body only, and parses every non-empty body, a 202's included.
C15_EmptyResultFor202OrEmpty_Amended ==
    \A c \in Calls :
        (/\ Done(c)
         /\ method[c] \in {"POST", "PATCH"}
         /\ returned[c] # NoResp
         /\ returned[c].status < 400)
        => /\ (method[c] = "POST"
                /\ (returned[c].status = 202 \/ returned[c].body.kind = "empty"))
              => (outcome[c] = "returned" /\ result[c] = "{}")
           /\ (method[c] = "PATCH" /\ returned[c].body.kind = "empty")
              => (outcome[c] = "returned" /\ result[c] = "{}")
           /\ (method[c] = "PATCH" /\ returned[c].body.kind \in {"object", "array"})
              => (outcome[c] = "returned" /\ result[c] = "json")
           /\ (method[c] = "PATCH" /\ returned[c].body.kind = "text")
              => outcome[c] = "JSONDecodeError"

C15_Witness ==
    \E c \in Calls :
        /\ Done(c)
        /\ method[c] = "POST"
        /\ returned[c].status = 202
        /\ returned[c].body.kind = "text"
        /\ outcome[c] = "returned"
        /\ result[c] = "{}"

\* The number of transient responses among the first i responses of a call.
TransientsUpTo(c, i) ==
    Cardinality({m \in 1..i : TransientStatus(received[c][m])})

\* The delays the specification allows after a transient response with
\* Retry-After header h on attempt index k: the parsed header (an integer,
\* clamped at 0; the time left until a date, for some reading of the clock),
\* and 2^k when there is no header or it does not parse.
AllowedDelays(h, k) ==
    CASE h.kind = "int" -> {IF h.n >= 0 THEN h.n ELSE 0}
      [] h.kind = "date" -> 0..h.n
      [] OTHER -> {2 ^ k}

\* C16: every transient response is at once followed by a sleep (there are
\* as many sleeps as transient responses received), and the sleep after the
\* response on attempt index i - 1 lasts the parsed Retry-After value when
\* the header parses, 0 included, and 2^(i-1) seconds otherwise.
C16_BackoffDelay ==
    \A c \in Calls :
        /\ Len(sleeps[c]) = TransientsUpTo(c, Len(received[c]))
        /\ \A i \in 1..Len(received[c]) :
              TransientStatus(received[c][i])
              => sleeps[c][TransientsUpTo(c, i)]
                    \in AllowedDelays(received[c][i].retryAfter, i - 1)

\* C19: a call one of whose HTTP requests failed at transport level (it has
\* issued a request that got no response and is not waiting for one) has
\* ended with the transport error; that request was its last one, no sleep
\* and no clear_cache call followed it, and no GraphApiError was built.
C19_TransportErrorPropagates ==
    \A c \in Calls :
        (httpCalls[c] > Len(received[c]) /\ pc[c] # "wait")
        => /\ Done(c)
           /\ outcome[c] = "TransportError"
           /\ httpCalls[c] = Len(received[c]) + 1
           /\ errorsBuilt[c] = 0
           /\ returned[c] = NoResp
           /\ Len(sleeps[c]) = TransientsUpTo(c, Len(received[c]))
           /\ clears[c] = IF Len(received[c]) >= 1
                              /\ AuthFailureResponse(received[c][1])
                          THEN 1 ELSE 0

C19_Witness ==
    \E c \in Calls :
        /\ Done(c)
        /\ outcome[c] = "TransportError"
        /\ httpCalls[c] = 2
        /\ Len(received[c]) = 1
        /\ received[c][1].status = 503
        /\ Len(sleeps[c]) = 1

\* C17: _parse_retry_after never raises and returns n for an integer header
\* n >= 0, 0 for an HTTP-date not after the clock reading, the whole seconds
\* left for a later HTTP-date, None for an absent header or one that is
\* neither; its result is never negative. Read off the GraphApiError built
\* from a response and off the delay slept after a transient response.
ParsedAsClaimed(h, v, now) ==
    /\ h.kind = "int" /\ h.n >= 0 => v = h.n
    /\ h.kind = "date" /\ h.n * TicksPerSecond <= now => v = 0
    /\ h.kind = "date" /\ h.n * TicksPerSecond > now
          => /\ v >= 0
             /\ v * TicksPerSecond <= h.n * TicksPerSecond - now
             /\ h.n * TicksPerSecond - now < (v + 1) * TicksPerSecond
    /\ h.kind \notin {"int", "date"} => v = NoSeconds
    /\ v = NoSeconds \/ v >= 0

C17_ParseRetryAfter ==
    \A c \in Calls :
        /\ outcome[c] # "OverflowError"
        /\ outcome[c] = "GraphApiError"
              => ParsedAsClaimed(returned[c].retryAfter,
                                 err[c].retry_after_seconds, clockRead[c])
        /\ (pc[c] = "sleep" /\ resp[c].retryAfter.kind \in {"int", "date"})
              => ParsedAsClaimed(resp[c].retryAfter, Last(sleeps[c]),
                                 clockRead[c])

RECURSIVE ConcatValues(_)
ConcatValues(bodies) ==
    IF bodies = <<>> THEN <<>>
    ELSE ConcatValues(SubSeq(bodies, 1, Len(bodies) - 1)) \o Last(bodies).value

\* Every self.get of the get_all call has returned an object.
AllPagesReturned(c) ==
    /\ allPc[c] = "done"
    /\ Len(pageBodies[c]) = Len(pagePaths[c])

HasCursor(body) == body.nextLink \notin {Absent, ""}

\* C12: when the server served N pages, 1 <= N <= max_pages, each but the
\* last with a cursor and the last without one, get_all made exactly N page
\* fetches and returned the pages' items concatenated in page order; it
\* never fetches past a page without a cursor and never stops at a page with
\* a cursor while the cap allows another fetch; whatever it returns has no
\* cursor key; and all of this holds for a second invocation as for the
\* first (its result holds the items of its own pages only).
C12_AllPagesMerged ==
    \A c \in Calls :
        /\ \A i \in 1..(Len(pagePaths[c]) - 1) : HasCursor(pageBodies[c][i])
        /\ (/\ AllPagesReturned(c)
            /\ Len(pageBodies[c]) <= max_pages[c]
            /\ Last(pageBodies[c]).nextLink = Absent)
           => /\ allOutcome[c] = "returned"
              /\ pages[c] = Len(pageBodies[c])
              /\ allResult[c].value = ConcatValues(pageBodies[c])
        /\ (/\ AllPagesReturned(c)
            /\ Len(pageBodies[c]) < max_pages[c])
           => ~HasCursor(Last(pageBodies[c]))
        /\ allOutcome[c] = "returned" => allResult[c].nextLink = Absent

C12_Witness ==
    \E c \in Calls :
        /\ allCalls[c] = 2
        /\ allOutcome[c] = "returned"
        /\ max_pages[c] = 2
        /\ Len(pageBodies[c]) = 2
        /\ pageBodies[c][1] = PageBody(<<"b", "c">>, "/page/A")
        /\ pageBodies[c][2] = PageBody(<<"a">>, Absent)
        /\ allResult[c].value = <<"b", "c", "a">>

\* C13: when max_pages >= 1 and every page served carried a cursor, get_all
\* made exactly max_pages page fetches, did not raise and returned the items
\* of those pages in order; at no time has it made more than max_pages
\* fetches.
C13_TruncatesAtMaxPages ==
    \A c \in Calls :
        /\ max_pages[c] >= 1 => Len(pagePaths[c]) <= max_pages[c]
        /\ (/\ max_pages[c] >= 1
            /\ AllPagesReturned(c)
            /\ \A i \in 1..Len(pageBodies[c]) : HasCursor(pageBodies[c][i]))
           => /\ Len(pagePaths[c]) = max_pages[c]
              /\ allOutcome[c] = "returned"
              /\ allResult[c].value = ConcatValues(pageBodies[c])

C13_Witness ==
    \E c \in Calls :
        /\ max_pages[c] = 2
        /\ allOutcome[c] = "returned"
        /\ Len(pagePaths[c]) = 2
        /\ pageBodies[c][1] = PageBody(<<"a">>, "/page/A")
        /\ pageBodies[c][2] = PageBody(<<"a">>, "/page/A")
        /\ allResult[c].value = <<"a", "a">>

\* C14: a get_all call has at most one HTTP request in flight; the fetch of
\* page N+1 is started only when page N has been returned; the first fetch
\* targets the path get_all was called with and the fetch of page N+1
\* targets the cursor of page N, which is the path of every HTTP request
\* sent for it.
C14_PagesInSequence ==
    \A c \in Calls :
        /\ httpCalls[c] - Len(received[c]) \in {0, 1}
        /\ Len(pagePaths[c]) - Len(pageBodies[c]) \in {0, 1}
        /\ pc[c] \in {"acquire", "send", "wait", "reacquire", "sleep"}
              => /\ allPc[c] = "fetch"
                 /\ Len(pagePaths[c]) = Len(pageBodies[c]) + 1
                 /\ path[c] = Last(pagePaths[c])
        /\ \A i \in 1..Len(pagePaths[c]) :
              pagePaths[c][i] =
                 IF i = 1 THEN FirstPath ELSE pageBodies[c][i - 1].nextLink

C14_Witness ==
    \E c \in Calls :
        /\ pc[c] = "wait"
        /\ Len(pageBodies[c]) = 1
        /\ pageBodies[c][1].nextLink = "/page/B"
        /\ pagePaths[c] = <<FirstPath, "/page/B">>
        /\ path[c] = "/page/B"

\* ------------------------------------------------------------------------
\* Properties of the tools
\* ------------------------------------------------------------------------
\* C20: whenever a tool has ended after the client operation it awaited
\* raised GraphApiError or AuthenticationRequired, the tool ended by
\* returning a response: no exception left it.
C20_ToolsConvertClientErrors ==
    \A c \in Calls :
        (/\ toolPc[c] = "done"
         /\ OperationOutcome(c) \in {"GraphApiError", "AuthenticationRequired"})
        => /\ toolOutcome[c] = "response"
           /\ toolResponse[c].kind # "none"

\* The categories a tool's error response is tagged with.
Taxonomy ==
    {"auth_error", "permission_denied", "not_found", "throttled",
     "validation_error", "graph_error"}

\* C21: whenever a tool has ended after the client operation it awaited
\* failed at transport level or with a RuntimeError of the token provider,
\* the tool ended by returning a response tagged with one of the taxonomy
\* categories: no exception left it.
C21_NoExceptionEscapesTools ==
    \A c \in Calls :
        (/\ toolPc[c] = "done"
         /\ OperationOutcome(c) \in {"TransportError", "RuntimeError"})
        => /\ toolOutcome[c] = "response"
           /\ toolResponse[c].errorType \in Taxonomy

\* The tool's except GraphApiError clause handled the error of the awaited
\* operation by graph_error_response.
HandledGraphError(c) ==
    /\ toolPc[c] = "done"
    /\ OperationOutcome(c) = "GraphApiError"
    /\ ~(tool[c] = "get_my_profile" /\ step[c] = 2)

\* C22: an error of status 401, or of status 403 with an invalid-token code
\* in any letter case, is tagged auth_error by graph_error_response, and
\* every other error of status 403 is tagged permission_denied.
C22_AuthAndPermissionTags ==
    \A c \in Calls :
        (HandledGraphError(c) /\ err[c].status_code \in {401, 403})
        => /\ toolOutcome[c] = "response"
           /\ toolResponse[c].errorType =
                 IF err[c].status_code = 401 \/ err[c].code \in InvalidTokenCodes
                 THEN "auth_error" ELSE "permission_denied"

\* C23: an error of status 429 is tagged throttled by graph_error_response
\* whatever its code, and the response carries the error's
\* retry_after_seconds whenever the error has one, 0 included.
C23_ThrottledTag ==
    \A c \in Calls :
        (HandledGraphError(c) /\ err[c].status_code = 429)
        => /\ toolOutcome[c] = "response"
           /\ toolResponse[c].errorType = "throttled"
           /\ toolResponse[c].retryAfterSeconds = err[c].retry_after_seconds

\* ------------------------------------------------------------------------
\* Properties of the executor's budget and of the token provider
\* ------------------------------------------------------------------------
\* The number of _auth_headers() calls of c that returned a token.
TokensAcquired(c) ==
    Cardinality({i \in 1..Len(acquired[c]) : acquired[c][i] = "token"})

\* C28: a logical call makes at most 3 HTTP requests, at most 2 token
\* acquisitions and at most 1 clear_cache call, and at least 1 HTTP request
\* once it has ended after its first acquisition returned a token; the
\* request of an auth retry counts in the 3, so at most 2 requests follow
\* the attempt-0 request that caused it.
C28_RequestBudget ==
    \A c \in Calls :
        /\ httpCalls[c] <= 3
        /\ Len(received[c]) <= httpCalls[c]
        /\ Len(acquired[c]) <= 2
        /\ TokensAcquired(c) <= 2
        /\ clears[c] <= 1
        /\ (Done(c) /\ Len(acquired[c]) >= 1 /\ acquired[c][1] = "token")
              => httpCalls[c] >= 1
        /\ clears[c] = 1 => httpCalls[c] - 1 <= 3 - 1

C28_Witness ==
    \E c \in Calls :
        /\ Done(c)
        /\ Len(received[c]) = 3
        /\ AuthFailureResponse(received[c][1])
        /\ TransientStatus(received[c][2])
        /\ TransientStatus(received[c][3])
        /\ httpCalls[c] = 3
        /\ clears[c] = 1
        /\ TokensAcquired(c) = 2

\* C29: when the second _auth_headers() of a call runs while the cache file
\* is still absent (nothing wrote it after the clear_cache), it returns no
\* token: the call ends there, after exactly 1 HTTP request, with the
\* GraphApiError of the attempt-0 response or with the RuntimeError of the
\* token provider.
C29_NoSilentReacquisition ==
    [][\A c \in Calls :
          (pc[c] = "reacquire" /\ cacheFile = "absent" /\ pc'[c] # "reacquire")
          => /\ pc'[c] = "done"
             /\ httpCalls'[c] = 1
             /\ Len(received'[c]) = 1
             /\ \/ outcome'[c] = "RuntimeError"
                \/ /\ outcome'[c] = "GraphApiError"
                   /\ err'[c].status_code = received[c][1].status
                   /\ err'[c].code = CodeOf(received[c][1])]_vars

C29_Witness ==
    \E c \in Calls :
        /\ Done(c)
        /\ cacheFile = "absent"
        /\ Len(received[c]) = 1
        /\ received[c][1].status = 403
        /\ acquired[c] = <<"token", "RuntimeError">>
        /\ outcome[c] = "RuntimeError"
        /\ httpCalls[c] = 1

\* ------------------------------------------------------------------------
\* Properties of the tools' argument checks
\* ------------------------------------------------------------------------
\* The tool of c returned the error of a local check of its arguments.
Rejected(c) ==
    /\ toolPc[c] = "done"
    /\ toolOutcome[c] = "response"
    /\ toolResponse[c].kind = "rejected"

\* C27 as stated: a tool that returned the error of a local check has
\* awaited no client operation, neither a read nor a write.
C27_ValidationBeforeClient ==
    \A c \in Calls : Rejected(c) => step[c] = 0

\* C27 as amended: a tool that returned the error of a local check has
\* awaited no writing client operation, and no reading one either, except
\* update_event, which may have read the existing event (one get) before its
\* "no fields to update" and datetime-order checks.
C27_ValidationBeforeClient_Amended ==
    \A c \in Calls :
        Rejected(c)
        => \/ step[c] = 0
           \/ /\ tool[c] = "update_event"
              /\ args[c] \in {"no_fields", "invalid_datetime"}
              /\ step[c] = 1
              /\ plan[c][1] = "GET"
              /\ method[c] = "GET"
              /\ outcome[c] = "returned"

C27_Witness ==
    \E c \in Calls :
        /\ Rejected(c)
        /\ tool[c] = "update_event"
        /\ args[c] = "invalid_datetime"
        /\ step[c] = 1
        /\ httpCalls[c] >= 1

\* ------------------------------------------------------------------------
\* Properties of get_token and clear_cache
\* ------------------------------------------------------------------------
\* C24: a get_token that builds its cache after clear_cache returned, with
\* no write of the cache file in between, finds no account and returns no
\* token: it ends in AuthenticationRequired or RuntimeError.
C24_InvalidateForcesSignIn ==
    \A c \in Calls :
        sawInvalidated[c]
        => /\ cache[c] = "empty"
           /\ tokenPc[c] \in {"built", "done"}
           /\ tokenPc[c] = "done"
                => tokenOutcome[c] \in {"AuthenticationRequired", "RuntimeError"}

C24_Witness ==
    \E c \in Calls :
        /\ sawInvalidated[c]
        /\ tokenPc[c] = "done"
        /\ tokenOutcome[c] = "AuthenticationRequired"
        /\ cacheFile = "absent"

\* C30: no get_token whose cache object held an account loaded before a
\* clear_cache that has returned writes the cache file afterwards.
C30_NoStaleWriteBack ==
    \A c \in Calls : stale[c] => ~written[c]

\* ------------------------------------------------------------------------
\* Properties of concurrent calls
\* ------------------------------------------------------------------------
\* The locals of the coroutine of call c, and what it has done.
CallScoped(c) ==
    <<pc[c], method[c], attempt[c], headers[c], resp[c], returned[c],
      outcome[c], result[c], httpCalls[c], acquired[c], clears[c], sleeps[c],
      received[c]>>

\* No step changes the locals of more than one call.
PrivateSteps ==
    \A c, d \in Calls :
        (c # d /\ CallScoped(c)' # CallScoped(c))
        => CallScoped(d)' = CallScoped(d)

\* A call that is about to issue a request can issue it while another call
\* sleeps.
SleepDoesNotBlock ==
    \A c, d \in Calls :
        (c # d /\ pc[c] = "sleep" /\ pc[d] = "send")
        => ENABLED (SendRequest(d) /\ UNCHANGED <<pageVars, toolVars, authVars>>)

\* The HTTP requests, sleeps and invalidations of c and d are as many.
SameWork(c, d) ==
    /\ httpCalls[c] = httpCalls[d]
    /\ Len(sleeps[c]) = Len(sleeps[d])
    /\ clears[c] = clears[d]

\* C25 as stated: the locals of a call are private to it, a sleeping call
\* blocks no request of another call, and two calls that ended after
\* receiving the same responses made as many HTTP requests, sleeps and
\* invalidations.
C25_CallsIndependent ==
    /\ [][PrivateSteps]_vars
    /\ [](SleepDoesNotBlock
          /\ \A c, d \in Calls :
                (Done(c) /\ Done(d) /\ received[c] = received[d])
                => SameWork(c, d))

\* C25 as amended: as above, for two calls that ended after receiving the
\* same responses, with the same outcomes of their token acquisitions, and
\* both or neither with a transport failure of the last request.
C25_CallsIndependent_Amended ==
    /\ [][PrivateSteps]_vars
    /\ [](SleepDoesNotBlock
          /\ \A c, d \in Calls :
                (/\ Done(c) /\ Done(d)
                 /\ received[c] = received[d]
                 /\ acquired[c] = acquired[d]
                 /\ outcome[c] = "TransportError" <=> outcome[d] = "TransportError")
                => SameWork(c, d))

C25_Witness ==
    /\ pc["c1"] = "sleep"
    /\ attempt["c1"] = 1
    /\ clears["c1"] = 1
    /\ headers["c1"] = 2
    /\ pc["c2"] = "wait"
    /\ attempt["c2"] = 0
    /\ headers["c2"] = 1
    /\ httpCalls["c2"] = 1

\* Both calls received an auth failure as the response of attempt 0.
BothAuthFailed ==
    \A c \in Calls :
        Len(received[c]) >= 1 /\ AuthFailureResponse(received[c][1])

\* The _auth_headers() calls of c after its first.
Reacquisitions(c) == IF Len(acquired[c]) >= 1 THEN Len(acquired[c]) - 1 ELSE 0

\* C26: when both calls received an auth failure on attempt 0, the cache was
\* cleared at most twice and at most two re-acquisitions were made in all,
\* a call that has not ended can always take its next step whatever the
\* other call does, and both calls end.
C26_DuplicateRefreshAtMost ==
    /\ [](BothAuthFailed
          => /\ clears["c1"] + clears["c2"] <= 2
             /\ Reacquisitions("c1") + Reacquisitions("c2") <= 2
             /\ \A c \in Calls :
                   pc[c] \notin {"idle", "done"}
                   => ENABLED (Proceed(c)
                               /\ UNCHANGED <<pageVars, toolVars, authVars>>))
    /\ \A c \in Calls : BothAuthFailed ~> Done(c)

C26_Witness ==
    /\ BothAuthFailed
    /\ Done("c1") /\ Done("c2")
    /\ clears["c1"] = 1 /\ clears["c2"] = 1
    /\ acquired["c1"] = <<"token", "token">>
    /\ acquired["c2"] = <<"token", "AuthenticationRequired">>

\* A 403 whose body is malformed in one of the ways the specification
\* lists: not JSON, JSON that is not an object, an object without "error",
\* an "error" that is not an object, or a "code" member that is missing,
\* null or not a string.
MalformedForbidden(r) ==
    /\ r.status = 403
    /\ \/ r.body.kind \in {"empty", "text", "array"}
       \/ r.body.error \in {Absent, "other"}
       \/ r.body.code \in {Absent, JsonNull, JsonNumber}

\* C31: _is_auth_failure answers false, without raising, for every 403
\* whose body is malformed: a call that has ended and whose last response
\* was such a 403 ended in a GraphApiError, and when that 403 was the
\* attempt-0 response the token cache was not invalidated.
C31_MalformedBodyNeverCrashes ==
    \A c \in Calls :
        (/\ Done(c)
         /\ Len(received[c]) >= 1
         /\ AllAnswered(c)
         /\ MalformedForbidden(Last(received[c])))
        => /\ outcome[c] = "GraphApiError"
           /\ Len(received[c]) = 1 => clears[c] = 0

\* The number of transient responses call c has received so far.
TransientCount(c) ==
    Cardinality({k \in 1..Len(received[c]) : TransientStatus(received[c][k])})

\* C32: every transient response is followed by a backoff sleep, the one to
\* the final attempt included: a call has slept (or is sleeping) once per
\* transient response it received; a call that used up its attempts (it has
\* ended after 3 HTTP requests, the last answered by a transient response)
\* has slept 3 times and returned that last response; and while the last
\* sleep is being taken nothing has been returned to the caller.
C32_SleepAfterEveryTransient ==
    \A c \in Calls :
        /\ Len(sleeps[c]) = TransientCount(c)
        /\ (/\ Done(c)
            /\ httpCalls[c] = 3
            /\ AllAnswered(c)
            /\ TransientStatus(Last(received[c])))
           => /\ Len(sleeps[c]) = 3
              /\ returned[c] = Last(received[c])
        /\ (pc[c] = "sleep" /\ httpCalls[c] = 3)
           => /\ returned[c] = NoResp
              /\ outcome[c] = "pending"

\* max(1, max_pages).
FetchBound(c) == IF max_pages[c] >= 1 THEN max_pages[c] ELSE 1

\* C33: get_all terminates whatever the server answers, a cursor that is
\* always present or that leads back to an earlier page included: every
\* get_all that was started ends; at every moment it has made at most
\* max(1, max_pages) page fetches, and the fetch in hand has issued at most
\* 3 HTTP requests, which makes at most max(1, max_pages) * 3 HTTP requests
\* for the whole get_all.
C33_GetAllTerminates ==
    /\ [](\A c \in Calls :
            allPc[c] # "idle"
            => /\ Len(pagePaths[c]) <= FetchBound(c)
               /\ httpCalls[c] <= 3)
    /\ \A c \in Calls : (allPc[c] = "fetch") ~> (allPc[c] = "done")

\* A get_all with max_pages = 2 has ended at the cap, its second fetch after
\* 3 HTTP requests; the second page was the first one again and still
\* carried the cursor.
C33_Witness ==
    /\ allPc["c1"] = "done"
    /\ allOutcome["c1"] = "returned"
    /\ max_pages["c1"] = 2
    /\ pagePaths["c1"] = <<FirstPath, "/page/A">>
    /\ Len(pageBodies["c1"]) = 2
    /\ pageBodies["c1"][1] = pageBodies["c1"][2]
    /\ pageBodies["c1"][2].nextLink = "/page/A"
    /\ httpCalls["c1"] = 3

\* C34: get_all fetches the first page before it consults the cap. A
\* get_all that returned made max(1, min(N, max_pages)) page fetches for a
\* server offering N pages: max(1, max_pages) fetches when the last page it
\* fetched still carried a cursor (N is larger), and otherwise N fetches
\* with N <= max(1, max_pages); with max_pages <= 0 it made exactly one
\* fetch and returned the items of that page.
C34_FirstPageBeforeCap ==
    \A c \in Calls :
        (allPc[c] = "done" /\ allOutcome[c] = "returned")
        => /\ Len(pagePaths[c]) = Len(pageBodies[c])
           /\ Len(pagePaths[c]) >= 1
           /\ IF HasCursor(Last(pageBodies[c]))
              THEN Len(pagePaths[c]) = FetchBound(c)
              ELSE Len(pagePaths[c]) <= FetchBound(c)
           /\ max_pages[c] <= 0
              => /\ pagePaths[c] = <<FirstPath>>
                 /\ allResult[c].value = pageBodies[c][1].value

\* A get_all with max_pages = 0 returned the two items of the first page,
\* which carried a cursor, after one fetch.
C34_Witness ==
    /\ allPc["c1"] = "done"
    /\ allOutcome["c1"] = "returned"
    /\ max_pages["c1"] = 0
    /\ pagePaths["c1"] = <<FirstPath>>
    /\ pageBodies["c1"][1].nextLink = "/page/B"
    /\ allResult["c1"].value = <<"b", "c">>

\* The self.get that get_all awaits has ended in a GraphApiError or an
\* AuthenticationRequired.
FetchFailed(c) ==
    /\ pc[c] = "done"
    /\ outcome[c] \in {"GraphApiError", "AuthenticationRequired"}

\* C35: when a page fetch of get_all, the first or a later one, ends in a
\* GraphApiError or an AuthenticationRequired, the next step of get_all is
\* to end with that same error, with no result and no further fetch; and a
\* get_all that has ended after such a fetch has that error as its outcome,
\* returned nothing, and the failed fetch was its last.
C35_PageErrorPropagates ==
    /\ [][\A c \in Calls :
            (allPc[c] = "fetch" /\ FetchFailed(c) /\ allPc'[c] # allPc[c])
            => /\ allPc'[c] = "done"
               /\ allOutcome'[c] = outcome[c]
               /\ err'[c] = err[c]
               /\ allResult'[c] = NoData
               /\ pagePaths'[c] = pagePaths[c]]_vars
    /\ [](\A c \in Calls :
            (allPc[c] = "done" /\ FetchFailed(c))
            => /\ allOutcome[c] = outcome[c]
               /\ allResult[c] = NoData
               /\ Len(pagePaths[c]) = Len(pageBodies[c]) + 1)

\* The second page fetch of a get_all ended in a GraphApiError of status
\* 404 after the first page had brought two items: get_all ended with the
\* GraphApiError and returned nothing.
C35_Witness ==
    /\ allPc["c1"] = "done"
    /\ allOutcome["c1"] = "GraphApiError"
    /\ err["c1"].status_code = 404
    /\ pagePaths["c1"] = <<FirstPath, "/page/A">>
    /\ all_items["c1"] = <<"b", "c">>
    /\ allResult["c1"] = NoData

\* C36: the executor and the tool layer agree on what an auth failure is.
\* When the response the executor returned surfaces as a GraphApiError that
\* a tool hands to graph_error_response, the tool returns a response tagged
\* auth_error if _is_auth_failure is true of that response, and tagged
\* permission_denied if the response is a 403 of which _is_auth_failure is
\* false.
C36_ExecutorAndToolsAgree ==
    \A c \in Calls :
        HandledGraphError(c)
        => /\ IsAuthFailure(returned[c]) = "true"
              => /\ toolOutcome[c] = "response"
                 /\ toolResponse[c].errorType = "auth_error"
           /\ (returned[c].status = 403 /\ IsAuthFailure(returned[c]) = "false")
              => /\ toolOutcome[c] = "response"
                 /\ toolResponse[c].errorType = "permission_denied"

\* A step in which call c issues an HTTP request; the request carries the
\* method and the headers the call holds when it goes out.
Sends(c) == httpCalls'[c] = httpCalls[c] + 1

\* The second _auth_headers() call of c returned a token.
Reacquired(c) == Len(acquired[c]) = 2 /\ acquired[c][2] = "token"

\* C37: all HTTP requests of a logical call carry the same method (the
\* path and the body or query parameters are arguments the executor never
\* assigns); the first request carries the headers acquired first, every
\* request issued after a successful re-acquisition carries the re-acquired
\* headers, every other request the first ones; and the headers change
\* between two requests only once, after the attempt-0 response was an auth
\* failure.
C37_RetryResendsSameRequest ==
    [][\A c \in Calls :
         /\ pc[c] \notin {"idle", "done"} => method'[c] = method[c]
         /\ Sends(c)
            => /\ headers'[c] = headers[c]
               /\ headers[c] = IF Reacquired(c) THEN 2 ELSE 1
               /\ httpCalls[c] = 0 => headers[c] = 1
         /\ (httpCalls[c] >= 1 /\ pc[c] \notin {"idle", "done"}
               /\ headers'[c] # headers[c])
            => /\ httpCalls[c] = 1
               /\ attempt[c] = 0
               /\ AuthFailureResponse(received[c][1])
               /\ headers[c] = 1
               /\ headers'[c] = 2]_vars

\* A POST was answered 401 on attempt 0, the headers were re-acquired, and
\* the second and third request went out with the re-acquired headers.
C37_Witness ==
    /\ method["c1"] = "POST"
    /\ pc["c1"] = "wait"
    /\ httpCalls["c1"] = 3
    /\ received["c1"][1].status = 401
    /\ TransientStatus(received["c1"][2])
    /\ acquired["c1"] = <<"token", "token">>
    /\ headers["c1"] = 2

C39_DelegateMessageOnlyForAccessDenied ==
    \A c \in Calls :
        (/\ HandledGraphError(c)
         /\ tool[c] = "respond_to_event"
         /\ user_email[c]
         /\ err[c].status_code = 403
         /\ err[c].code \notin {"ErrorAccessDenied"}
         /\ toolOutcome[c] = "response")
        => toolResponse[c].error #
              BodyMessage("You don't have permission to respond to events on <user_email>'s calendar.")
====
